---- MODULE Spec2Model ----
(***************************************************************************)
(* A model of auto_survey: the Paper / Author / Queries data models, the   *)
(* search orchestrator get_all_papers, and the survey writer               *)
(* write_literature_survey with its citation scan and reference pruning,   *)
(* followed by find_papers, summarise_paper, cli.main and final_answer.    *)
(* SpecTerm runs get_all_papers against an index with fixed exhaustion     *)
(* offsets under weak fairness; SpecEq applies Paper.__eq__ and __hash__.  *)
(*                                                                         *)
(* Python strings are modelled as sequences of one-character strings, so   *)
(* that substring search, splitting, stripping and the regular expressions *)
(* of the code are computed character by character.                        *)
(***************************************************************************)
EXTENDS Integers, Sequences, FiniteSets, TLC

(***************************************************************************)
(* Python str primitives                                                   *)
(***************************************************************************)
LowerSeq == <<"a","b","c","d","e","f","g","h","i","j","k","l","m",
              "n","o","p","q","r","s","t","u","v","w","x","y","z">>
UpperSeq == <<"A","B","C","D","E","F","G","H","I","J","K","L","M",
              "N","O","P","Q","R","S","T","U","V","W","X","Y","Z">>
DigitSeq == <<"0","1","2","3","4","5","6","7","8","9">>

Range(f) == {f[i] : i \in DOMAIN f}

IsLower(c) == c \in Range(LowerSeq)
IsUpper(c) == c \in Range(UpperSeq)
IsCased(c) == IsLower(c) \/ IsUpper(c)
IsDigit(c) == c \in Range(DigitSeq)

\* str.isspace() for the characters the model uses
IsSpace(c) == c \in {" ", "\n", "\t"}

\* the regular expression class \w
IsWordChar(c) == IsCased(c) \/ IsDigit(c) \/ c = "_"

IndexIn(c, seq) == CHOOSE i \in DOMAIN seq : seq[i] = c

LowerChar(c) == IF IsUpper(c) THEN LowerSeq[IndexIn(c, UpperSeq)] ELSE c
UpperChar(c) == IF IsLower(c) THEN UpperSeq[IndexIn(c, LowerSeq)] ELSE c

\* str.lower()
Lower(s) == [i \in 1..Len(s) |-> LowerChar(s[i])]

\* str.title(): a cased character is upper-cased when it follows an uncased
\* character (or starts the string) and lower-cased otherwise
TitleCase(s) ==
    [i \in 1..Len(s) |->
        IF ~IsCased(s[i]) THEN s[i]
        ELSE IF i > 1 /\ IsCased(s[i-1]) THEN LowerChar(s[i])
        ELSE UpperChar(s[i])]

\* sub occurs in s at 0-based position i
OccursAt(sub, s, i) ==
    /\ i >= 0
    /\ i + Len(sub) <= Len(s)
    /\ SubSeq(s, i + 1, i + Len(sub)) = sub

\* Python `sub in s`
Occurs(sub, s) == \E i \in 0..Len(s) : OccursAt(sub, s, i)

Positions(sub, s) == {i \in 0..Len(s) : OccursAt(sub, s, i)}

SetMax(S) == CHOOSE x \in S : \A y \in S : y <= x
SetMin(S) == CHOOSE x \in S : \A y \in S : x <= y

\* str.find / str.rfind, -1 when absent
Find(sub, s) == IF Positions(sub, s) = {} THEN -1 ELSE SetMin(Positions(sub, s))
RFind(sub, s) == IF Positions(sub, s) = {} THEN -1 ELSE SetMax(Positions(sub, s))

Prefix(s, n) == SubSeq(s, 1, n)
Suffix(s, n) == SubSeq(s, n + 1, Len(s))

RECURSIVE LStrip(_)
LStrip(s) == IF s # <<>> /\ IsSpace(Head(s)) THEN LStrip(Tail(s)) ELSE s

RECURSIVE RStrip(_)
RStrip(s) ==
    IF s # <<>> /\ IsSpace(s[Len(s)]) THEN RStrip(SubSeq(s, 1, Len(s) - 1)) ELSE s

\* str.strip()
Strip(s) == LStrip(RStrip(s))

\* str.split(sep) for a non-empty separator: a list of strings
RECURSIVE Split(_, _)
Split(s, sep) ==
    IF Find(sep, s) = -1 THEN <<s>>
    ELSE <<Prefix(s, Find(sep, s))>> \o Split(Suffix(s, Find(sep, s) + Len(sep)), sep)

\* str.replace(old, new) for a non-empty old, left to right, non-overlapping
RECURSIVE Replace(_, _, _)
Replace(s, old, new) ==
    IF Find(old, s) = -1 THEN s
    ELSE Prefix(s, Find(old, s)) \o new
         \o Replace(Suffix(s, Find(old, s) + Len(old)), old, new)

\* str.splitlines() on "\n": no empty last line after a final newline
RECURSIVE SplitLines(_)
SplitLines(s) ==
    IF s = <<>> THEN <<>>
    ELSE IF Find(<<"\n">>, s) = -1 THEN <<s>>
    ELSE <<Prefix(s, Find(<<"\n">>, s))>> \o SplitLines(Suffix(s, Find(<<"\n">>, s) + 1))

\* sep.join(list)
RECURSIVE Join(_, _)
Join(sep, list) ==
    IF list = <<>> THEN <<>>
    ELSE IF Len(list) = 1 THEN list[1]
    ELSE list[1] \o sep \o Join(sep, Tail(list))

\* length of the run of newlines that starts s
RECURSIVE NewlineRun(_)
NewlineRun(s) == IF s # <<>> /\ Head(s) = "\n" THEN 1 + NewlineRun(Tail(s)) ELSE 0

\* re.sub(r"\n{2,}", "\n\n", s)
RECURSIVE CollapseNewlines(_)
CollapseNewlines(s) ==
    IF s = <<>> THEN <<>>
    ELSE IF NewlineRun(s) >= 2
         THEN <<"\n", "\n">> \o CollapseNewlines(Suffix(s, NewlineRun(s)))
    ELSE <<Head(s)>> \o CollapseNewlines(Tail(s))

\* the regular expression assertion \b at 0-based position k of s
WordBoundary(s, k) ==
    LET before == k >= 1 /\ k <= Len(s) /\ IsWordChar(s[k])
        after  == k >= 0 /\ k < Len(s) /\ IsWordChar(s[k + 1])
    IN  before # after

\* re.search(rf"\b{re.escape(word)}\b", line)
SearchWholeWord(word, line) ==
    \E i \in 0..Len(line) :
        /\ OccursAt(word, line, i)
        /\ WordBoundary(line, i)
        /\ WordBoundary(line, i + Len(word))

\* str(n) for an integer
RECURSIVE NatStr(_)
NatStr(n) == IF n < 10 THEN <<DigitSeq[n + 1]>> ELSE NatStr(n \div 10) \o <<DigitSeq[(n % 10) + 1]>>

IntStr(n) == IF n < 0 THEN <<"-">> \o NatStr(-n) ELSE NatStr(n)

(***************************************************************************)
(* String literals of the program                                          *)
(***************************************************************************)
UnknownAuthor == <<"U","n","k","n","o","w","n"," ","A","u","t","h","o","r">>
AndSep == <<" ","a","n","d"," ">>
EtAl == <<" ","e","t"," ","a","l",".">>
NoDate == <<"n",".","d",".">>
RefHeading == <<"#","#"," ","R","e","f","e","r","e","n","c","e","s">>
BlankLine == <<"\n","\n">>
NewLine == <<"\n">>

(***************************************************************************)
(* data_models.py: Author and Paper                                        *)
(***************************************************************************)
Author(first, last) == [first_name |-> first, last_name |-> last]

Paper(title, authors, year, venue, url, summary) ==
    [title |-> title, authors |-> authors, year |-> year,
     venue |-> venue, url |-> url, summary |-> summary]

\* Author.__str__
AuthorStr(a) ==
    LET s1 == IF a.last_name # <<>> THEN a.last_name ELSE <<>>
        s2 == IF a.first_name # <<>>
              THEN (IF s1 # <<>> THEN s1 \o <<",", " ">> ELSE s1) \o a.first_name
              ELSE s1
    IN  IF s2 # <<>> THEN s2 ELSE UnknownAuthor

\* Author.__eq__
AuthorEq(a, b) == a.first_name = b.first_name /\ a.last_name = b.last_name

\* list equality of the authors, element by element with Author.__eq__
AuthorsEq(as, bs) ==
    /\ Len(as) = Len(bs)
    /\ \A i \in 1..Len(as) : AuthorEq(as[i], bs[i])

\* a slip of __eq__: the summary, which cli.main sets later, is left out
PaperEqButSummary(p, q) ==
    /\ p.title = q.title
    /\ AuthorsEq(p.authors, q.authors)
    /\ p.year = q.year
    /\ p.venue = q.venue
    /\ p.url = q.url

\* Paper.__eq__
PaperEq(p, q) ==
    /\ p.title = q.title
    /\ AuthorsEq(p.authors, q.authors)
    /\ p.year = q.year
    /\ p.venue = q.venue
    /\ p.url = q.url
    /\ p.summary = q.summary

\* Python `paper in papers` / `paper not in papers` on a list
PaperIn(p, papers) == \E i \in 1..Len(papers) : PaperEq(papers[i], p)

YearStr(year) == IF year # -1 THEN IntStr(year) ELSE NoDate

\* a plausible slip of get_citation: the two-author branch is lost
get_citation_two_as_many(p, in_parens) ==
    LET author_str ==
            IF p.authors = <<>> THEN UnknownAuthor
            ELSE IF Len(p.authors) = 1 THEN p.authors[1].last_name
            ELSE p.authors[1].last_name \o EtAl
    IN  IF in_parens
        THEN <<"(">> \o author_str \o <<",", " ">> \o YearStr(p.year) \o <<")">>
        ELSE author_str \o <<" ", "(">> \o YearStr(p.year) \o <<")">>

\* Paper.get_citation
get_citation(p, in_parens) ==
    LET author_str ==
            IF p.authors = <<>> THEN UnknownAuthor
            ELSE IF Len(p.authors) = 1 THEN p.authors[1].last_name
            ELSE IF Len(p.authors) = 2
                 THEN p.authors[1].last_name \o AndSep \o p.authors[2].last_name
            ELSE p.authors[1].last_name \o EtAl
    IN  IF in_parens
        THEN <<"(">> \o author_str \o <<",", " ">> \o YearStr(p.year) \o <<")">>
        ELSE author_str \o <<" ", "(">> \o YearStr(p.year) \o <<")">>

\* a slip of references_entry: title and venue go in as they are written
references_entry_as_written(p) ==
    LET authors_str == Join(AndSep, [i \in 1..Len(p.authors) |-> AuthorStr(p.authors[i])])
        e1 == IF authors_str # <<>> THEN authors_str ELSE UnknownAuthor
        e2 == e1 \o <<" ", "(">> \o YearStr(p.year) \o <<")", ".">>
        e3 == IF p.title # <<>> THEN e2 \o <<" ">> \o p.title \o <<".">> ELSE e2
        e4 == IF p.venue # <<>>
              THEN e3 \o <<" ", "_">> \o p.venue \o <<"_", ".">>
              ELSE e3
    IN  Strip(e4)

\* Paper.references_entry
references_entry(p) ==
    LET authors_str == Join(AndSep, [i \in 1..Len(p.authors) |-> AuthorStr(p.authors[i])])
        e1 == IF authors_str # <<>> THEN authors_str ELSE UnknownAuthor
        e2 == e1 \o <<" ", "(">> \o YearStr(p.year) \o <<")", ".">>
        e3 == IF p.title # <<>> THEN e2 \o <<" ">> \o TitleCase(p.title) \o <<".">> ELSE e2
        e4 == IF p.venue # <<>>
              THEN e3 \o <<" ", "_">> \o TitleCase(p.venue) \o <<"_", ".">>
              ELSE e3
    IN  Strip(e4)

(***************************************************************************)
(* State                                                                   *)
(***************************************************************************)
VARIABLES
    \* a Paper object and the last method called on it
    p_paper, p_op, p_in_parens, p_out,
    \* get_list_of_queries: the completion, the validated Queries object, the result
    q_pc, q_completion, q_queries, q_returned,
    \* Queries.__post_init__ called on a Queries object
    n_pc, n_queries,
    \* get_all_papers
    s_pc, min_num_relevant_papers, batch_size, queries, query_idx, offset,
    relevant_papers, s_generated, s_exhausted,
    \* get_all_papers, the record of its calls: the queries at the start of the
    \* sweep, the calls of find_papers in the sweep, the calls of is_relevant_paper
    \* made by the step taken last, the papers judged relevant so far; and the index:
    \* the number of pages it holds for each query
    s_sweep, s_fetched, s_calls, s_judged, s_horizon,
    \* write_literature_survey
    w_pc, w_relevant_papers, literature_survey, papers_missing_citations,
    papers_still_missing_citations, w_completions, w_scanned,
    \* correct_references
    r_pc, r_papers, r_survey, r_once, r_twice,
    \* find_papers: its arguments, the requests sent and the responses received,
    \* the number of backoff sleeps, and what the call returned or raised
    f_pc, f_query, f_num_results, f_offset, f_sent, f_responses, f_sleeps,
    f_result, f_error,
    \* summarise_paper: the paper, the outcomes of the calls of parse_pdf, the
    \* number of sleeps, the content put into the prompt, and the result
    u_pc, u_paper, u_attempts, u_sleeps, u_content, u_summary, u_error,
    \* cli.main: the variable `papers`, the loop index, the survey and the file
    \* written, the installed tools, and the record of the calls made: the list
    \* the search returned, how often each summary was set, the papers handed
    \* to the second relevance pass with its verdicts, the writer's argument
    m_pc, m_papers, m_idx, m_kept, m_survey, markdown_file, pdf_file, m_pandoc, m_pdflatex,
    m_error, m_collected, m_set, m_checked, m_verdicts, m_written,
    \* final_answer: the report file as it is and as it was at the call, the
    \* PDF, the installed tools, and the error raised
    a_pc, report_file, a_given, a_pdf, a_pandoc, a_weasyprint, a_error,
    \* two Paper objects, the comparison made of them last and its results
    e_left, e_right, e_op, e_result

paperVars == <<p_paper, p_op, p_in_parens, p_out>>
queryVars == <<q_pc, q_completion, q_queries, q_returned>>
normVars == <<n_pc, n_queries>>
searchVars == <<s_pc, min_num_relevant_papers, batch_size, queries, query_idx, offset,
                relevant_papers, s_generated, s_exhausted,
                s_sweep, s_fetched, s_calls, s_judged, s_horizon>>
writeVars == <<w_pc, w_relevant_papers, literature_survey, papers_missing_citations,
               papers_still_missing_citations, w_completions, w_scanned>>
rebuildVars == <<r_pc, r_papers, r_survey, r_once, r_twice>>
findVars == <<f_pc, f_query, f_num_results, f_offset, f_sent, f_responses, f_sleeps,
              f_result, f_error>>

\* the data models, the search orchestrator and the writer; the index client,
\* the summariser, the command line and the agent's tools
sumVars == <<u_pc, u_paper, u_attempts, u_sleeps, u_content, u_summary, u_error>>
coreVars == <<paperVars, queryVars, normVars, searchVars, writeVars, rebuildVars>>
mainVars == <<m_pc, m_papers, m_idx, m_kept, m_survey, markdown_file, pdf_file, m_pandoc,
              m_pdflatex, m_error, m_collected, m_set, m_checked, m_verdicts, m_written>>
finalVars == <<a_pc, report_file, a_given, a_pdf, a_pandoc, a_weasyprint, a_error>>
eqVars == <<e_left, e_right, e_op, e_result>>
stageVars == <<findVars, sumVars, mainVars, finalVars, eqVars>>
\* what an operation of one component leaves alone
notFindVars == <<coreVars, sumVars, mainVars, finalVars, eqVars>>
notSumVars == <<coreVars, findVars, mainVars, finalVars, eqVars>>
notMainVars == <<coreVars, findVars, sumVars, finalVars, eqVars>>
notFinalVars == <<coreVars, findVars, sumVars, mainVars, eqVars>>
notEqVars == <<coreVars, findVars, sumVars, mainVars, finalVars>>

vars == <<coreVars, stageVars>>

\* the part of the state a component does not use
PaperIdle ==
    /\ p_paper = Paper(<<>>, <<>>, -1, <<>>, <<>>, <<>>)
    /\ p_op = "none" /\ p_in_parens = FALSE /\ p_out = <<>>
QueryIdle ==
    q_pc = "idle" /\ q_completion = <<>> /\ q_queries = <<>> /\ q_returned = <<>>
NormIdle == n_pc = "idle" /\ n_queries = <<>>
SearchIdle ==
    /\ s_pc = "idle" /\ min_num_relevant_papers = 0 /\ batch_size = 1
    /\ queries = <<>> /\ query_idx = 0 /\ offset = 0 /\ relevant_papers = <<>>
    /\ s_generated = <<>> /\ s_exhausted = {}
    /\ s_sweep = <<>> /\ s_fetched = <<>> /\ s_calls = {} /\ s_judged = {}
    /\ s_horizon = <<>>
WriteIdle ==
    /\ w_pc = "idle" /\ w_relevant_papers = <<>> /\ literature_survey = <<>>
    /\ papers_missing_citations = <<>> /\ papers_still_missing_citations = <<>>
    /\ w_completions = 0 /\ w_scanned = <<>>
RebuildIdle ==
    r_pc = "idle" /\ r_papers = <<>> /\ r_survey = <<>> /\ r_once = <<>> /\ r_twice = <<>>
FindIdle ==
    /\ f_pc = "idle" /\ f_query = <<>> /\ f_num_results = 0 /\ f_offset = 0
    /\ f_sent = <<>> /\ f_responses = <<>> /\ f_sleeps = 0
    /\ f_result = [kind |-> "unset", papers |-> <<>>] /\ f_error = "none"
CoreIdle ==
    PaperIdle /\ QueryIdle /\ NormIdle /\ SearchIdle /\ WriteIdle /\ RebuildIdle
SumIdle ==
    /\ u_pc = "idle" /\ u_paper = Paper(<<>>, <<>>, -1, <<>>, <<>>, <<>>)
    /\ u_attempts = <<>> /\ u_sleeps = 0 /\ u_content = <<>> /\ u_summary = <<>>
    /\ u_error = "none"
\* a file that does not exist
NoFile == [exists |-> FALSE, text |-> <<>>]
MainIdle ==
    /\ m_pc = "idle" /\ m_papers = <<>> /\ m_idx = 0 /\ m_kept = <<>> /\ m_survey = <<>>
    /\ markdown_file = NoFile /\ pdf_file = NoFile
    /\ m_pandoc = "ok" /\ m_pdflatex = "ok" /\ m_error = "none"
    /\ m_collected = <<>> /\ m_set = <<>> /\ m_checked = <<>> /\ m_verdicts = <<>>
    /\ m_written = <<>>
FinalIdle ==
    /\ a_pc = "idle" /\ report_file = NoFile /\ a_given = NoFile /\ a_pdf = FALSE
    /\ a_pandoc = "ok" /\ a_weasyprint = "ok" /\ a_error = "none"
NoResult == [eq |-> FALSE, hashes |-> <<0, 0>>, member |-> FALSE, size |-> 0]
EqIdle ==
    /\ e_left = Paper(<<>>, <<>>, -1, <<>>, <<>>, <<>>)
    /\ e_right = Paper(<<>>, <<>>, -1, <<>>, <<>>, <<>>)
    /\ e_op = "idle" /\ e_result = NoResult
StageIdle == FindIdle /\ SumIdle /\ MainIdle /\ FinalIdle /\ EqIdle

SeqsUpTo(S, n) == UNION {[1..k -> S] : k \in 0..n}

(***************************************************************************)
(* Paper objects: get_citation and references_entry as operations          *)
(***************************************************************************)
\* longest authors list of the Paper objects explored
MaxAuthors == 3

AuthorPool ==
    { Author(<<"W","e","i">>, <<"L","i">>),
      Author(<<"B","o">>, <<"W","u">>),
      Author(<<>>, <<"N","g">>),
      Author(<<>>, <<>>) }

PaperUniverse ==
    { Paper(t, as, y, v, <<>>, <<>>) :
        t \in {<<>>, <<"a"," ","b">>},
        as \in SeqsUpTo(AuthorPool, MaxAuthors),
        y \in {-1, 2020},
        v \in {<<>>, <<"j">>} }

PaperInit ==
    /\ p_paper \in PaperUniverse
    /\ p_op = "none" /\ p_in_parens = FALSE /\ p_out = <<>>

CallGetCitation ==
    \E in_parens \in BOOLEAN :
        /\ p_op' = "get_citation"
        /\ p_in_parens' = in_parens
        /\ p_out' = get_citation(p_paper, in_parens)
        /\ UNCHANGED <<p_paper, queryVars, normVars, searchVars, writeVars, rebuildVars, stageVars>>

CallReferencesEntry ==
    /\ p_op' = "references_entry"
    /\ p_out' = references_entry(p_paper)
    /\ UNCHANGED <<p_paper, p_in_parens, queryVars, normVars, searchVars, writeVars,
                   rebuildVars, stageVars>>

PaperNext == CallGetCitation \/ CallReferencesEntry

InitPaper ==
    PaperInit /\ QueryIdle /\ NormIdle /\ SearchIdle /\ WriteIdle /\ RebuildIdle /\ StageIdle

SpecPaper == InitPaper /\ [][PaperNext]_vars

\* C4's author string X, by the number of authors
LawAuthorString(p) ==
    CASE Len(p.authors) = 0 -> UnknownAuthor
      [] Len(p.authors) = 1 -> p.authors[1].last_name
      [] Len(p.authors) = 2 -> p.authors[1].last_name \o AndSep \o p.authors[2].last_name
      [] Len(p.authors) >= 3 -> p.authors[1].last_name \o EtAl

\* C4's year string Y
LawYearString(p) == IF p.year = -1 THEN NoDate ELSE IntStr(p.year)

LawNarrative(p) == LawAuthorString(p) \o <<" ", "(">> \o LawYearString(p) \o <<")">>
LawParenthetical(p) ==
    <<"(">> \o LawAuthorString(p) \o <<",", " ">> \o LawYearString(p) \o <<")">>

\* C4: get_citation(in_parens=False) is "X (Y)" and get_citation(in_parens=True) is
\* "(X, Y)", X being "Unknown Author" / "Last" / "Last1 and Last2" / "Last1 et al."
\* for 0 / 1 / 2 / 3 or more authors and Y the literal year, or "n.d." for year -1.
CitationFormatLaw ==
    p_op = "get_citation" =>
        p_out = IF p_in_parens THEN LawParenthetical(p_paper) ELSE LawNarrative(p_paper)

\* a three-author paper of unknown year was cited in parentheses
CitationFormatWitness ==
    /\ p_op = "get_citation" /\ p_in_parens
    /\ Len(p_paper.authors) >= 3 /\ p_paper.year = -1
    /\ p_out = <<"(","L","i"," ","e","t"," ","a","l",".",","," ","n",".","d",".",")">>

\* C26's "last, first" form of an author: the names that are not empty, the
\* last name first, and "Unknown Author" for an author without a name
LawAuthorForm(a) ==
    CASE a.last_name # <<>> /\ a.first_name # <<>> -> a.last_name \o <<",", " ">> \o a.first_name
      [] a.last_name # <<>> /\ a.first_name = <<>> -> a.last_name
      [] a.last_name = <<>> /\ a.first_name # <<>> -> a.first_name
      [] a.last_name = <<>> /\ a.first_name = <<>> -> UnknownAuthor

\* C26's <AuthorList>
RECURSIVE LawAuthorList(_)
LawAuthorList(authors) ==
    IF authors = <<>> THEN UnknownAuthor
    ELSE IF Len(authors) = 1 THEN LawAuthorForm(authors[1])
    ELSE LawAuthorForm(authors[1]) \o AndSep \o LawAuthorList(Tail(authors))

LawEntryHead(p) == LawAuthorList(p.authors) \o <<" ", "(">> \o LawYearString(p) \o <<")", ".">>
LawTitlePart(p) == <<" ">> \o TitleCase(p.title) \o <<".">>
LawVenuePart(p) == <<" ", "_">> \o TitleCase(p.venue) \o <<"_", ".">>

\* C26, as stated: references_entry() is "<AuthorList> (<Year>). <Title>. _<Venue>_."
\* with title and venue title-cased, for every Paper, also for a paper with an
\* empty title or an empty venue.
ReferenceEntryFormat ==
    p_op = "references_entry" =>
        p_out = LawEntryHead(p_paper) \o LawTitlePart(p_paper) \o LawVenuePart(p_paper)

\* C26, amended: the same, where the part " <Title>." is left out for a paper with
\* an empty title and the part " _<Venue>_." for a paper with an empty venue.
ReferenceEntryFormatAmended ==
    p_op = "references_entry" =>
        p_out = LawEntryHead(p_paper)
                \o (IF p_paper.title # <<>> THEN LawTitlePart(p_paper) ELSE <<>>)
                \o (IF p_paper.venue # <<>> THEN LawVenuePart(p_paper) ELSE <<>>)

\* the entry of a paper of unknown year without a title, by two authors of whom
\* one has no first name, was formatted
ReferenceEntryFormatWitness ==
    /\ p_op = "references_entry"
    /\ p_paper.title = <<>> /\ p_paper.venue # <<>> /\ p_paper.year = -1
    /\ Len(p_paper.authors) = 2
    /\ p_paper.authors[1].first_name # <<>> /\ p_paper.authors[2].first_name = <<>>

(***************************************************************************)
(* data_models.py: Queries.  search.py: get_list_of_queries                *)
(***************************************************************************)
OrSep == <<" ","O","R"," ">>
AndSepUpper == <<" ","A","N","D"," ">>

\* [subquery.strip() for subquery in or_query.split(" OR ")]
StrippedParts(or_query) ==
    [k \in 1..Len(Split(or_query, OrSep)) |-> Strip(Split(or_query, OrSep)[k])]

\* the 0-based indices i with `" OR " in query.lower()`
IndicesWithOrStatement(qs) ==
    SelectSeq([i \in 1..Len(qs) |-> i - 1],
              LAMBDA i : Occurs(OrSep, Lower(qs[i + 1])))

\* for i in indices_with_or_statement: pop(i), split, extend
RECURSIVE SplitOrQueries(_, _)
SplitOrQueries(qs, idxs) ==
    IF idxs = <<>> THEN qs
    ELSE LET i == Head(idxs)
             or_query == qs[i + 1]
             popped == SubSeq(qs, 1, i) \o SubSeq(qs, i + 2, Len(qs))
         IN  SplitOrQueries(popped \o StrippedParts(or_query), Tail(idxs))

\* Queries.__post_init__ up to its last statement: the list before list(set(...))
PostInitList(qs) ==
    LET stripped == [i \in 1..Len(qs) |-> Strip(qs[i])]
        nonblank == SelectSeq(stripped, LAMBDA q : q # <<>>)
        split == SplitOrQueries(nonblank, IndicesWithOrStatement(nonblank))
    IN  [i \in 1..Len(split) |-> Replace(split[i], AndSepUpper, <<" ">>)]

\* the lists list(set(xs)) can be: the distinct elements in any order
ListOfSet(xs) == {ys \in [1..Cardinality(Range(xs)) -> Range(xs)] : Range(ys) = Range(xs)}

\* Queries.model_validate_json(json_data=completion).queries: pydantic's BaseModel
\* builds the object from the JSON list; it has no __post_init__ hook (that is the
\* dataclass protocol), so the method of that name is not run and the field holds
\* the list as the completion gave it
ModelValidateQueries(completion) == completion

\* most queries in one completion explored
MaxQueries == 2

ExampleQuery == <<"d","e","e","p"," ","l","e","a","r","n","i","n","g"," ","O","R"," ","m","a","c","h","i","n","e"," ","l","e","a","r","n","i","n","g"," ","A","N","D"," ","h","e","a","l","t","h","c","a","r","e">>
ExamplePart1 == <<"d","e","e","p"," ","l","e","a","r","n","i","n","g">>
ExamplePart2 == <<"m","a","c","h","i","n","e"," ","l","e","a","r","n","i","n","g"," ","h","e","a","l","t","h","c","a","r","e">>

QueryStrings ==
    { <<>>, <<" ">>, <<"d","l">>, <<"d","l"," ">>, ExampleQuery,
      <<"m","l"," ","A","N","D"," ","h","c">>, <<"d","l"," ","o","r"," ","m","l">>, <<"m","l"," ","h","c">> }

Completions == SeqsUpTo(QueryStrings, MaxQueries)

QueryInit ==
    q_pc = "start" /\ q_completion = <<>> /\ q_queries = <<>> /\ q_returned = <<>>

\* search.py 118-127: the completion service answers with a JSON list of strings
QueryCompletion ==
    /\ q_pc = "start"
    /\ q_completion' \in Completions
    /\ q_pc' = "completed"
    /\ UNCHANGED <<q_queries, q_returned, paperVars, normVars, searchVars, writeVars,
                   rebuildVars, stageVars>>

\* search.py 128: queries = Queries.model_validate_json(json_data=completion).queries
QueryValidate ==
    /\ q_pc = "completed"
    /\ q_queries' = ModelValidateQueries(q_completion)
    /\ q_pc' = "validated"
    /\ UNCHANGED <<q_completion, q_returned, paperVars, normVars, searchVars, writeVars,
                   rebuildVars, stageVars>>

\* search.py 130-132: return queries
QueryReturn ==
    /\ q_pc = "validated"
    /\ q_returned' = q_queries
    /\ q_pc' = "returned"
    /\ UNCHANGED <<q_completion, q_queries, paperVars, normVars, searchVars, writeVars,
                   rebuildVars, stageVars>>

QueryNext == QueryCompletion \/ QueryValidate \/ QueryReturn

InitQueries ==
    QueryInit /\ PaperIdle /\ NormIdle /\ SearchIdle /\ WriteIdle /\ RebuildIdle /\ StageIdle

SpecQueries == InitQueries /\ [][QueryNext]_vars

\* Queries.__post_init__ called on a Queries object (nothing in the program calls it)
NormInit == n_pc = "start" /\ n_queries \in Completions

PostInit ==
    /\ n_pc = "start"
    /\ n_queries' \in ListOfSet(PostInitList(n_queries))
    /\ n_pc' = "done"
    /\ UNCHANGED <<paperVars, queryVars, searchVars, writeVars, rebuildVars, stageVars>>

InitNorm ==
    NormInit /\ PaperIdle /\ QueryIdle /\ SearchIdle /\ WriteIdle /\ RebuildIdle /\ StageIdle

SpecNorm == InitNorm /\ [][PostInit]_vars

HasOrSeparator(q) == Occurs(OrSep, q) \/ Occurs(Lower(OrSep), Lower(q))
HasAnd(q) == Occurs(AndSepUpper, q)

\* C7: a returned query list holds no query with a case-insensitive " OR " separator
\* (each was replaced by its parts) and no literal " AND "; the example query
\* "deep learning OR machine learning AND healthcare" yields both "deep learning"
\* and "machine learning healthcare".
QueryNormalization ==
    q_pc = "returned" =>
        /\ \A i \in 1..Len(q_returned) :
               ~Occurs(Lower(OrSep), Lower(q_returned[i])) /\ ~HasAnd(q_returned[i])
        /\ (\E i \in 1..Len(q_completion) : q_completion[i] = ExampleQuery) =>
               /\ \E i \in 1..Len(q_returned) : q_returned[i] = ExamplePart1
               /\ \E i \in 1..Len(q_returned) : q_returned[i] = ExamplePart2

\* the same statement about __post_init__ itself, called directly
PostInitNormalization ==
    n_pc = "done" =>
        \A i \in 1..Len(n_queries) :
            ~Occurs(Lower(OrSep), Lower(n_queries[i])) /\ ~HasAnd(n_queries[i])

\* C8: the list get_list_of_queries returns has no blank entry, no two equal strings
\* and no query with a boolean AND / OR operator.
QuerySetInvariant ==
    q_pc = "returned" =>
        /\ \A i \in 1..Len(q_returned) : Strip(q_returned[i]) # <<>>
        /\ \A i, j \in 1..Len(q_returned) : q_returned[i] = q_returned[j] => i = j
        /\ \A i \in 1..Len(q_returned) :
               ~Occurs(OrSep, q_returned[i]) /\ ~Occurs(AndSepUpper, q_returned[i])

(***************************************************************************)
(* search.py: get_all_papers                                               *)
(***************************************************************************)
\* largest min_num_relevant_papers explored
MaxQuota == 2
\* largest batch_size explored
MaxBatch == 2
\* longest query list get_list_of_queries returns here
MaxSearchQueries == 3
\* sweeps of the while loop explored; the offset is unbounded in the code
MaxSweeps == 3

\* query strings of the search; get_all_papers only compares and passes them on
SearchQueries == {<<"q","1">>, <<"q","2">>}

SearchPapers ==
    { Paper(<<"a">>, <<Author(<<"W","e","i">>, <<"L","i">>)>>, 2020, <<>>, <<>>, <<>>),
      Paper(<<>>, <<>>, -1, <<>>, <<>>, <<>>) }

\* a slip of the removal: the list stays as it is
RemoveFirstKeepsAll(list, x) == list

\* list.remove(x): the list without its first element equal to x
RemoveFirst(list, x) ==
    LET i == SetMin({k \in 1..Len(list) : list[k] = x})
    IN  SubSeq(list, 1, i - 1) \o SubSeq(list, i + 1, Len(list))

\* a slip of the loop condition: stops while one query is still active
WhileCondOneLeft(found, quota, qs) == Len(found) < quota /\ Len(qs) > 1

\* search.py 47: while len(relevant_papers) < min_num_relevant_papers and queries
WhileCond(found, quota, qs) == Len(found) < quota /\ qs # <<>>

\* a slip of the filter: nothing is dropped
NotYetFoundKeepsAll(papers, found) == papers

\* search.py 58: [paper for paper in papers if paper not in relevant_papers]
NotYetFound(papers, found) == SelectSeq(papers, LAMBDA p : ~PaperIn(p, found))

\* a slip of the quota check: the for loop is never left early
QuotaReachedNever(found, quota) == FALSE

\* search.py 76: if len(relevant_papers) >= min_num_relevant_papers: break
QuotaReached(found, quota) == Len(found) >= quota

\* search.py 61-67: the papers of the page that is_relevant_paper answered True for
KeepRelevant(papers, verdict) ==
    LET idx == SelectSeq([i \in 1..Len(papers) |-> i], LAMBDA i : verdict[i])
    IN  [k \in 1..Len(idx) |-> papers[idx[k]]]

\* search.py 52: the call find_papers(query=query, num_results=batch_size,
\* offset=offset), as it is recorded
Fetch(query, start) == [query |-> query, offset |-> start]

SearchInit ==
    /\ s_pc = "start"
    /\ min_num_relevant_papers \in 1..MaxQuota
    /\ batch_size \in 1..MaxBatch
    /\ queries = <<>> /\ query_idx = 0 /\ offset = 0 /\ relevant_papers = <<>>
    /\ s_generated = <<>> /\ s_exhausted = {}
    /\ s_sweep = <<>> /\ s_fetched = <<>> /\ s_calls = {} /\ s_judged = {}
    /\ s_horizon = <<>>

\* search.py 37-43: queries = get_list_of_queries(...), the list as the completion
\* service gave it (see ModelValidateQueries)
GetQueries ==
    /\ s_pc = "start"
    /\ queries' \in SeqsUpTo(SearchQueries, MaxSearchQueries)
    /\ s_generated' = queries'
    /\ s_pc' = "while"
    /\ UNCHANGED <<min_num_relevant_papers, batch_size, query_idx, offset,
                   relevant_papers, s_exhausted>>
    /\ UNCHANGED <<s_sweep, s_fetched, s_calls, s_judged, s_horizon>>
    /\ UNCHANGED <<paperVars, queryVars, normVars, writeVars, rebuildVars, stageVars>>

\* search.py 47-48: the loop condition holds; `for query in queries` starts
SweepStarts ==
    /\ s_pc = "while"
    /\ WhileCond(relevant_papers, min_num_relevant_papers, queries)
    /\ query_idx' = 0
    /\ s_pc' = "for"
    /\ s_sweep' = queries /\ s_fetched' = <<>> /\ s_calls' = {}
    /\ UNCHANGED <<min_num_relevant_papers, batch_size, queries, offset,
                   relevant_papers, s_generated, s_exhausted, s_judged, s_horizon>>
    /\ UNCHANGED <<paperVars, queryVars, normVars, writeVars, rebuildVars, stageVars>>

\* the same, for at most MaxSweeps sweeps
EnterSweep == SweepStarts /\ offset < MaxSweeps * batch_size

\* search.py 47, 82-83: the loop condition fails; return relevant_papers
ReturnPapers ==
    /\ s_pc = "while"
    /\ ~WhileCond(relevant_papers, min_num_relevant_papers, queries)
    /\ s_pc' = "returned"
    /\ UNCHANGED <<min_num_relevant_papers, batch_size, queries, query_idx, offset,
                   relevant_papers, s_generated, s_exhausted>>
    /\ s_calls' = {}
    /\ UNCHANGED <<s_sweep, s_fetched, s_judged, s_horizon>>
    /\ UNCHANGED <<paperVars, queryVars, normVars, writeVars, rebuildVars, stageVars>>

\* search.py 48-55: the list iterator yields queries[query_idx]; find_papers returns
\* None; queries.remove(query); continue
FindExhausted ==
    /\ s_pc = "for"
    /\ query_idx < Len(queries)
    /\ LET query == queries[query_idx + 1]
       IN  /\ queries' = RemoveFirst(queries, query)
           /\ s_exhausted' = s_exhausted \cup {query}
           /\ s_fetched' = Append(s_fetched, Fetch(query, offset))
    /\ query_idx' = query_idx + 1
    /\ UNCHANGED <<s_pc, min_num_relevant_papers, batch_size, offset, relevant_papers,
                   s_generated>>
    /\ s_calls' = {}
    /\ UNCHANGED <<s_sweep, s_judged, s_horizon>>
    /\ UNCHANGED <<paperVars, queryVars, normVars, writeVars, rebuildVars, stageVars>>

\* search.py 48-77: find_papers returns a page (possibly empty); drop the papers
\* already found, keep the ones judged relevant, extend, break on the quota
FindPage ==
    /\ s_pc = "for"
    /\ query_idx < Len(queries)
    /\ \E papers \in SeqsUpTo(SearchPapers, batch_size) :
         LET fresh == NotYetFound(papers, relevant_papers)
         IN  \E verdict \in [1..Len(fresh) -> BOOLEAN] :
               /\ s_calls' = {[paper |-> fresh[i], verdict |-> verdict[i]] :
                                  i \in 1..Len(fresh)}
               /\ s_judged' = s_judged \cup {fresh[i] : i \in {k \in 1..Len(fresh) : verdict[k]}}
               /\ relevant_papers' = relevant_papers \o KeepRelevant(fresh, verdict)
               /\ s_pc' = IF QuotaReached(relevant_papers', min_num_relevant_papers)
                          THEN "break" ELSE "for"
    /\ query_idx' = query_idx + 1
    /\ UNCHANGED <<min_num_relevant_papers, batch_size, queries, offset, s_generated,
                   s_exhausted>>
    /\ s_fetched' = Append(s_fetched, Fetch(queries[query_idx + 1], offset))
    /\ UNCHANGED <<s_sweep, s_horizon>>
    /\ UNCHANGED <<paperVars, queryVars, normVars, writeVars, rebuildVars, stageVars>>

\* search.py 52, 239: find_papers raises (raise_for_status); get_all_papers does not
\* catch it
FindRaises ==
    /\ s_pc = "for"
    /\ query_idx < Len(queries)
    /\ s_pc' = "raised"
    /\ query_idx' = query_idx + 1
    /\ UNCHANGED <<min_num_relevant_papers, batch_size, queries, offset,
                   relevant_papers, s_generated, s_exhausted>>
    /\ s_fetched' = Append(s_fetched, Fetch(queries[query_idx + 1], offset))
    /\ s_calls' = {}
    /\ UNCHANGED <<s_sweep, s_judged, s_horizon>>
    /\ UNCHANGED <<paperVars, queryVars, normVars, writeVars, rebuildVars, stageVars>>

\* search.py 79-80: the for loop is over (iterator exhausted or break);
\* offset += batch_size
SweepEnd ==
    /\ \/ s_pc = "break"
       \/ s_pc = "for" /\ query_idx >= Len(queries)
    /\ offset' = offset + batch_size
    /\ s_pc' = "while"
    /\ UNCHANGED <<min_num_relevant_papers, batch_size, queries, query_idx,
                   relevant_papers, s_generated, s_exhausted>>
    /\ s_calls' = {}
    /\ UNCHANGED <<s_sweep, s_fetched, s_judged, s_horizon>>
    /\ UNCHANGED <<paperVars, queryVars, normVars, writeVars, rebuildVars, stageVars>>

SearchNext ==
    \/ GetQueries \/ EnterSweep \/ ReturnPapers
    \/ FindExhausted \/ FindPage \/ FindRaises \/ SweepEnd

InitSearch ==
    SearchInit /\ PaperIdle /\ QueryIdle /\ NormIdle /\ WriteIdle /\ RebuildIdle /\ StageIdle

SpecSearch == InitSearch /\ [][SearchNext]_vars

\* C3: the list get_all_papers returns holds no two Papers equal under Paper.__eq__.
DedupLaw ==
    s_pc = "returned" =>
        \A i, j \in 1..Len(relevant_papers) :
            PaperEq(relevant_papers[i], relevant_papers[j]) => i = j

\* what does hold: a paper already in the result is never appended again by a
\* later page
DedupAcrossPages ==
    [][\A k \in (Len(relevant_papers) + 1)..Len(relevant_papers') :
           ~PaperIn(relevant_papers'[k], relevant_papers)]_vars

\* C9: when get_all_papers returns, the result holds at least
\* min_num_relevant_papers papers, or no query is active and every generated query
\* was reported exhausted by find_papers.
QuotaOrExhaustion ==
    s_pc = "returned" =>
        \/ Len(relevant_papers) >= min_num_relevant_papers
        \/ /\ queries = <<>>
           /\ \A i \in 1..Len(s_generated) : s_generated[i] \in s_exhausted

\* get_all_papers returned short of the quota after every query was exhausted
QuotaShortWitness ==
    /\ s_pc = "returned"
    /\ Len(relevant_papers) < min_num_relevant_papers
    /\ Len(s_generated) = 2 /\ s_generated[1] # s_generated[2]
    /\ relevant_papers # <<>>

\* C10, first half: no search is issued for a query string that find_papers has
\* already reported exhausted.
NoSearchAfterExhausted ==
    [][(s_pc = "for" /\ query_idx' = query_idx + 1) =>
           queries[query_idx + 1] \notin s_exhausted]_vars

(***************************************************************************)
(* The sweeps of get_all_papers                                            *)
(***************************************************************************)
\* the calls of find_papers a full sweep over `list` makes at `start`
CallsFor(list, start) == [i \in 1..Len(list) |-> [query |-> list[i], offset |-> start]]

IsPrefix(a, b) == Len(a) <= Len(b) /\ SubSeq(b, 1, Len(a)) = a

\* the for loop has run to the end of the list
SweepComplete == s_pc = "for" /\ query_idx >= Len(queries)

\* C22: within one sweep every query that is active at the start of the sweep is
\* fetched exactly once at the sweep's offset, in the order of the list, unless the
\* quota ends the sweep early; also in a sweep in which a query is found exhausted
\* and removed.
FullSweep ==
    /\ (s_pc \in {"for", "break"}) => IsPrefix(s_fetched, CallsFor(s_sweep, offset))
    /\ SweepComplete => s_fetched = CallsFor(s_sweep, offset)

\* the same, for sweeps in which no query has been removed
FullSweepWithoutRemoval ==
    (queries = s_sweep) =>
        /\ (s_pc \in {"for", "break"}) => IsPrefix(s_fetched, CallsFor(s_sweep, offset))
        /\ SweepComplete => s_fetched = CallsFor(s_sweep, offset)

\* the offset starts at 0 and grows by batch_size, when a sweep ends and only then
OffsetGrowsAfterSweep ==
    /\ []((s_pc \in {"start", "idle"}) => offset = 0)
    /\ [][ /\ (offset' # offset) =>
                /\ offset' = offset + batch_size
                /\ s_pc \in {"for", "break"} /\ s_pc' = "while"
           /\ (s_pc \in {"for", "break"} /\ s_pc' = "while") => offset' # offset ]_vars

\* C28: with pages of at most batch_size papers, the list never reaches
\* min_num_relevant_papers + batch_size papers, and it grows only while it is
\* below the quota: at most the last batch carries it past the quota.
BoundedOvershoot ==
    /\ [](Len(relevant_papers) < min_num_relevant_papers + batch_size)
    /\ [][(relevant_papers' # relevant_papers) =>
              Len(relevant_papers) < min_num_relevant_papers]_vars

\* get_all_papers returned more papers than the quota asks for
BoundedOvershootWitness ==
    /\ s_pc = "returned"
    /\ Len(relevant_papers) > min_num_relevant_papers

\* C29: the accumulated list only grows by appending, every paper appended was
\* judged relevant by is_relevant_paper in this run, and is_relevant_paper is never
\* called for a paper that is in the accumulated list at the time of the call.
RelevanceGate ==
    [][ /\ IsPrefix(relevant_papers, relevant_papers')
        /\ \A k \in (Len(relevant_papers) + 1)..Len(relevant_papers') :
               /\ relevant_papers'[k] \in s_judged'
               /\ [paper |-> relevant_papers'[k], verdict |-> TRUE] \in s_calls'
        /\ \A call \in s_calls' :
               \A k \in 1..Len(relevant_papers) :
                   ~PaperEq(call.paper, relevant_papers[k]) ]_vars

\* a page was judged after a paper had been collected from an earlier page, and
\* one of its papers was rejected
RelevanceGateWitness ==
    /\ \E rejected \in s_calls : ~rejected.verdict
    /\ \E k \in 1..Len(relevant_papers) :
           \A call \in s_calls : call.paper # relevant_papers[k]

(***************************************************************************)
(* get_all_papers against an index that reports a query exhausted from a   *)
(* fixed offset on, or never; find_papers returns every time (it is not    *)
(* rate-limited forever, and the index answers with a page or with the     *)
(* exhaustion signal)                                                      *)
(***************************************************************************)
\* the largest offset from which a query is reported exhausted
MaxHorizon == 2

Horizons ==
    {[finite |-> TRUE, from |-> n] : n \in 0..MaxHorizon}
    \cup {[finite |-> FALSE, from |-> 0]}

\* search.py 231-233: find_papers returns None for the query at this offset
ReportsExhausted(query, start) ==
    s_horizon[query].finite /\ start >= s_horizon[query].from

\* sweeps explored; a run against an index that exhausts every query needs at
\* most MaxHorizon sweeps to pass every horizon and one more for each query
SweepCap == MaxHorizon + MaxSearchQueries

TermInit ==
    /\ s_pc = "start"
    /\ min_num_relevant_papers \in 1..MaxQuota
    /\ batch_size \in 1..MaxBatch
    /\ queries = <<>> /\ query_idx = 0 /\ offset = 0 /\ relevant_papers = <<>>
    /\ s_generated = <<>> /\ s_exhausted = {}
    /\ s_sweep = <<>> /\ s_fetched = <<>> /\ s_calls = {} /\ s_judged = {}
    /\ s_horizon \in [SearchQueries -> Horizons]

TermSweepStarts == SweepStarts /\ offset < SweepCap * batch_size

IndexReportsExhausted ==
    /\ s_pc = "for"
    /\ query_idx < Len(queries)
    /\ ReportsExhausted(queries[query_idx + 1], offset)
    /\ FindExhausted

IndexReturnsPage ==
    /\ s_pc = "for"
    /\ query_idx < Len(queries)
    /\ ~ReportsExhausted(queries[query_idx + 1], offset)
    /\ FindPage

TermNext ==
    \/ GetQueries \/ TermSweepStarts \/ ReturnPapers
    \/ IndexReportsExhausted \/ IndexReturnsPage \/ SweepEnd

InitTerm ==
    TermInit /\ PaperIdle /\ QueryIdle /\ NormIdle /\ WriteIdle /\ RebuildIdle /\ StageIdle

\* every step of the function is taken in the end
SpecTerm == InitTerm /\ [][TermNext]_vars /\ WF_vars(TermNext)

\* the index exhausts every generated query / keeps one of them alive for ever
AllExhaustible ==
    \A i \in 1..Len(s_generated) : s_horizon[s_generated[i]].finite
SomeNeverExhausted ==
    \E i \in 1..Len(s_generated) : ~s_horizon[s_generated[i]].finite

\* C30: against an index that reports every query exhausted from some offset on,
\* get_all_papers returns, whatever the relevance verdicts, also short of the
\* quota and also with a query string that occurs twice in the list; with a query
\* that is never reported exhausted it returns only when the quota is met.
Termination ==
    /\ (s_pc = "while" /\ AllExhaustible) ~> (s_pc = "returned")
    /\ []((s_pc = "returned" /\ SomeNeverExhausted)
              => Len(relevant_papers) >= min_num_relevant_papers)

\* the sweeps explored suffice for every run against an exhausting index
SweepCapNotReached ==
    (s_pc = "while" /\ AllExhaustible
        /\ WhileCond(relevant_papers, min_num_relevant_papers, queries))
        => offset < SweepCap * batch_size

\* get_all_papers returned short of the quota, the list of queries held the same
\* string twice and every query was exhausted after the first sweep
TerminationWitness ==
    /\ s_pc = "returned"
    /\ Len(relevant_papers) < min_num_relevant_papers
    /\ Len(s_generated) >= 2 /\ s_generated[1] = s_generated[2]
    /\ AllExhaustible
    /\ offset > batch_size

(***************************************************************************)
(* writing.py: write_literature_survey                                     *)
(***************************************************************************)
\* writing.py 82-89 and 130-137: the papers neither of whose citation forms occurs
\* in the survey text
MissingCitations(papers, survey) ==
    SelectSeq(papers,
              LAMBDA p : /\ ~Occurs(get_citation(p, TRUE), survey)
                         /\ ~Occurs(get_citation(p, FALSE), survey))

\* literature_survey.rsplit("## References", 1) yields two parts iff the heading occurs
HasHeading(survey) == Occurs(RefHeading, survey)
ContentPart(survey) == Prefix(survey, RFind(RefHeading, survey))
ReferencesPart(survey) == Suffix(survey, RFind(RefHeading, survey) + Len(RefHeading))

\* writing.py 147-154: the indices of the lines that hold the title of a paper that
\* is still missing, by re.search(rf"\b{re.escape(paper.title)}\b", line)
LinesToRemove(references_lines, still_missing) ==
    {i \in 1..Len(references_lines) :
        \E k \in 1..Len(still_missing) :
            SearchWholeWord(still_missing[k].title, references_lines[i])}

\* writing.py 144-165: the survey with the lines of the uncited papers removed
PruneReferences(survey, still_missing) ==
    LET references_lines == SplitLines(Strip(ReferencesPart(survey)))
        lines_to_remove == LinesToRemove(references_lines, still_missing)
        keep == SelectSeq([i \in 1..Len(references_lines) |-> i],
                          LAMBDA i : i \notin lines_to_remove)
        kept_lines == [k \in 1..Len(keep) |-> references_lines[keep[k]]]
        corrected_references_part == Strip(CollapseNewlines(Join(NewLine, kept_lines)))
    IN  Strip(ContentPart(survey)) \o BlankLine \o RefHeading \o BlankLine
        \o corrected_references_part

(***************************************************************************)
(* The completion service as the survey writer sees it: the drafts it may  *)
(* answer with                                                             *)
(***************************************************************************)
\* most papers in one survey explored
MaxSurveyPapers == 2

PaperX == Paper(<<"a","b">>, <<Author(<<"W","e","i">>, <<"L","i">>)>>, 2020, <<"j">>, <<>>, <<>>)
PaperY ==
    Paper(<<"a","b"," ","c","d">>,
          <<Author(<<"B","o">>, <<"W","u">>), Author(<<"W","e","i">>, <<"L","i">>)>>,
          2021, <<"j">>, <<>>, <<>>)
PaperZ == Paper(<<>>, <<>>, -1, <<>>, <<>>, <<>>)
\* a paper whose title ends in a character that is no word character
PaperW == Paper(<<"e","?">>, <<Author(<<"J","o">>, <<"K","i","m">>)>>, 2022, <<"j">>, <<>>, <<>>)

SurveyPaperPool == <<PaperX, PaperY, PaperZ>>

\* the sublists of the pool, in the pool's order
SubLists(pool, n) ==
    { [k \in 1..Len(idx) |-> pool[idx[k]]] :
        idx \in { s \in SeqsUpTo(1..Len(pool), n) :
                    \A i \in 1..(Len(s) - 1) : s[i] < s[i + 1] } }

SurveyPaperLists ==
    (SubLists(SurveyPaperPool, MaxSurveyPapers) \ {<<>>}) \cup {<<PaperW, PaperX>>}

\* a reference line as the draft writes it: "Last, F." names, the year, the title
DraftAuthor(a) == a.last_name \o <<",", " ">> \o Prefix(a.first_name, 1) \o <<".">>
DraftEntry(p) ==
    LET names == IF p.authors = <<>> THEN <<"A","n","o","n",".">>
                 ELSE Join(<<",", " ">>, [i \in 1..Len(p.authors) |-> DraftAuthor(p.authors[i])])
    IN  names \o <<" ", "(">> \o YearStr(p.year) \o <<")", ".">>
        \o (IF p.title # <<>> THEN <<" ">> \o p.title \o <<".">> ELSE <<>>)

\* the citation the draft writes for a paper, in the prompt's "(Author, Year)" or
\* "Author (Year)" form
DraftCitation(p, in_parens) == IF in_parens THEN LawParenthetical(p) ELSE LawNarrative(p)

SelectByIndex(list, S) ==
    LET idx == SelectSeq([i \in 1..Len(list) |-> i], LAMBDA i : i \in S)
    IN  [k \in 1..Len(idx) |-> list[idx[k]]]

\* a reference line in the short author-year style: "Li (2020). ab."
ShortEntry(p) ==
    LawNarrative(p) \o <<".">>
    \o (IF p.title # <<>> THEN <<" ">> \o p.title \o <<".">> ELSE <<>>)

\* a draft: prose citing the papers of `cited`, then the heading and one line for
\* each paper of `listed`, the lines `gap` newlines apart
DraftText(papers, cited, in_parens, listed, gap, short) ==
    LET mentions == SelectByIndex([i \in 1..Len(papers) |-> DraftCitation(papers[i], in_parens)],
                                  cited)
        entries == SelectByIndex([i \in 1..Len(papers) |->
                                     IF short THEN ShortEntry(papers[i])
                                     ELSE DraftEntry(papers[i])], listed)
    IN  <<"S","e","e"," ">> \o Join(<<";", " ">>, mentions) \o <<".">> \o BlankLine
        \o RefHeading \o BlankLine
        \o Join([k \in 1..gap |-> "\n"], entries)

\* a draft that lacks the heading
DraftTextNoHeading(papers, cited, in_parens) ==
    LET mentions == SelectByIndex([i \in 1..Len(papers) |-> DraftCitation(papers[i], in_parens)],
                                  cited)
    IN  <<"S","e","e"," ">> \o Join(<<";", " ">>, mentions) \o <<".">>

\* a draft in which the heading occurs twice: entries follow either occurrence
DraftTextTwoHeadings(papers, cited, first, second) ==
    DraftText(papers, cited, TRUE, first, 2, FALSE)
    \o BlankLine \o RefHeading \o BlankLine
    \o Join(BlankLine, SelectByIndex([i \in 1..Len(papers) |-> DraftEntry(papers[i])], second))

Drafts(papers) ==
    { DraftText(papers, cited, in_parens, listed, gap, short) :
        cited \in SUBSET (1..Len(papers)), in_parens \in BOOLEAN,
        listed \in SUBSET (1..Len(papers)), gap \in {1, 2}, short \in BOOLEAN }
    \cup { DraftTextTwoHeadings(papers, cited, first, second) :
             cited \in SUBSET (1..Len(papers)),
             first \in SUBSET (1..Len(papers)), second \in SUBSET (1..Len(papers)) }
    \cup { DraftTextNoHeading(papers, cited, in_parens) :
             cited \in SUBSET (1..Len(papers)), in_parens \in BOOLEAN }
    \cup { <<>> }

WriteInit ==
    /\ w_pc = "start"
    /\ w_relevant_papers \in SurveyPaperLists
    /\ literature_survey = <<>>
    /\ papers_missing_citations = <<>> /\ papers_still_missing_citations = <<>>
    /\ w_completions = 0 /\ w_scanned = <<>>

\* writing.py 69-78: the first completion
WriteDraft ==
    /\ w_pc = "start"
    /\ literature_survey' \in Drafts(w_relevant_papers)
    /\ w_completions' = w_completions + 1
    /\ w_pc' = "drafted"
    /\ UNCHANGED <<w_relevant_papers, papers_missing_citations,
                   papers_still_missing_citations, w_scanned>>
    /\ UNCHANGED <<paperVars, queryVars, normVars, searchVars, rebuildVars, stageVars>>

\* writing.py 80-89: the scan of the first draft
ScanDraft ==
    /\ w_pc = "drafted"
    /\ papers_missing_citations' = MissingCitations(w_relevant_papers, literature_survey)
    /\ w_pc' = "scanned"
    /\ UNCHANGED <<w_relevant_papers, literature_survey, papers_still_missing_citations,
                   w_completions, w_scanned>>
    /\ UNCHANGED <<paperVars, queryVars, normVars, searchVars, rebuildVars, stageVars>>

\* a repair that hands the revised survey back to the first scan
RequestRepairRescanned ==
    /\ w_pc = "scanned"
    /\ papers_missing_citations # <<>>
    /\ literature_survey' \in Drafts(w_relevant_papers)
    /\ w_completions' = w_completions + 1
    /\ w_pc' = "drafted"
    /\ UNCHANGED <<w_relevant_papers, papers_missing_citations,
                   papers_still_missing_citations, w_scanned>>
    /\ UNCHANGED <<paperVars, queryVars, normVars, searchVars, rebuildVars, stageVars>>

\* writing.py 93-125: papers are missing; the completion service revises the survey
RequestRepair ==
    /\ w_pc = "scanned"
    /\ papers_missing_citations # <<>>
    /\ literature_survey' \in Drafts(w_relevant_papers)
    /\ w_completions' = w_completions + 1
    /\ w_pc' = "revised"
    /\ UNCHANGED <<w_relevant_papers, papers_missing_citations,
                   papers_still_missing_citations, w_scanned>>
    /\ UNCHANGED <<paperVars, queryVars, normVars, searchVars, rebuildVars, stageVars>>

\* writing.py 93: no paper is missing, the draft stands
SkipRepair ==
    /\ w_pc = "scanned"
    /\ papers_missing_citations = <<>>
    /\ w_pc' = "revised"
    /\ UNCHANGED <<w_relevant_papers, literature_survey, papers_missing_citations,
                   papers_still_missing_citations, w_completions, w_scanned>>
    /\ UNCHANGED <<paperVars, queryVars, normVars, searchVars, rebuildVars, stageVars>>

\* writing.py 127-137: the second scan, over all of relevant_papers
ScanAgain ==
    /\ w_pc = "revised"
    /\ papers_still_missing_citations' =
           MissingCitations(w_relevant_papers, literature_survey)
    /\ w_scanned' = literature_survey
    /\ w_pc' = "rescanned"
    /\ UNCHANGED <<w_relevant_papers, literature_survey, papers_missing_citations,
                   w_completions>>
    /\ UNCHANGED <<paperVars, queryVars, normVars, searchVars, rebuildVars, stageVars>>

\* writing.py 138-167: papers are still missing and the heading occurs: prune, return
PruneAndReturn ==
    /\ w_pc = "rescanned"
    /\ papers_still_missing_citations # <<>>
    /\ HasHeading(literature_survey)
    /\ literature_survey' = PruneReferences(literature_survey, papers_still_missing_citations)
    /\ w_pc' = "returned"
    /\ UNCHANGED <<w_relevant_papers, papers_missing_citations,
                   papers_still_missing_citations, w_completions, w_scanned>>
    /\ UNCHANGED <<paperVars, queryVars, normVars, searchVars, rebuildVars, stageVars>>

\* writing.py 144: without the heading rsplit yields one part and the unpacking
\* raises ValueError
PruneRaises ==
    /\ w_pc = "rescanned"
    /\ papers_still_missing_citations # <<>>
    /\ ~HasHeading(literature_survey)
    /\ w_pc' = "raised"
    /\ UNCHANGED <<w_relevant_papers, literature_survey, papers_missing_citations,
                   papers_still_missing_citations, w_completions, w_scanned>>
    /\ UNCHANGED <<paperVars, queryVars, normVars, searchVars, rebuildVars, stageVars>>

\* writing.py 138, 167: no paper is missing: return the survey as it is
ReturnSurvey ==
    /\ w_pc = "rescanned"
    /\ papers_still_missing_citations = <<>>
    /\ w_pc' = "returned"
    /\ UNCHANGED <<w_relevant_papers, literature_survey, papers_missing_citations,
                   papers_still_missing_citations, w_completions, w_scanned>>
    /\ UNCHANGED <<paperVars, queryVars, normVars, searchVars, rebuildVars, stageVars>>

WriteNext ==
    \/ WriteDraft \/ ScanDraft \/ RequestRepair \/ SkipRepair \/ ScanAgain
    \/ PruneAndReturn \/ PruneRaises \/ ReturnSurvey

InitWrite ==
    WriteInit /\ PaperIdle /\ QueryIdle /\ NormIdle /\ SearchIdle /\ RebuildIdle /\ StageIdle

SpecWrite == InitWrite /\ [][WriteNext]_vars

\* the text above the heading, and the non-blank lines below it
BodyText(survey) ==
    IF HasHeading(survey) THEN Prefix(survey, Find(RefHeading, survey)) ELSE survey
ReferenceEntries(survey) ==
    IF HasHeading(survey)
    THEN SelectSeq(SplitLines(Suffix(survey, Find(RefHeading, survey) + Len(RefHeading))),
                   LAMBDA line : Strip(line) # <<>>)
    ELSE <<>>

HasEntry(p, survey) ==
    \E i \in 1..Len(ReferenceEntries(survey)) :
        ReferenceEntries(survey)[i] \in {DraftEntry(p), ShortEntry(p)}
CitedInBody(p, survey) ==
    \/ Occurs(LawParenthetical(p), BodyText(survey))
    \/ Occurs(LawNarrative(p), BodyText(survey))

\* C1: in the document write_literature_survey returns, a paper of the input list has
\* an entry under the heading if and only if one of its two citation forms occurs in
\* the body above the heading.
Bijection ==
    w_pc = "returned" =>
        \A i \in 1..Len(w_relevant_papers) :
            HasEntry(w_relevant_papers[i], literature_survey)
                <=> CitedInBody(w_relevant_papers[i], literature_survey)

\* the entries of all the papers, one blank line apart, are the References section
OneEntryPerPaper(survey, papers) ==
    /\ HasHeading(survey)
    /\ Strip(ReferencesPart(survey)) =
           Join(BlankLine, [i \in 1..Len(papers) |-> DraftEntry(papers[i])])

StillCited(papers, still_missing) ==
    SelectSeq(papers, LAMBDA p : \A k \in 1..Len(still_missing) : still_missing[k] # p)

\* C2: when the scanned survey lists one entry per paper (N entries) and M papers are
\* still uncited, the pruned survey lists exactly the N-M entries of the cited papers,
\* one blank line apart.
PruningCorrectness ==
    ( /\ w_pc = "returned"
      /\ papers_still_missing_citations # <<>>
      /\ OneEntryPerPaper(w_scanned, w_relevant_papers) ) =>
        LET cited == StillCited(w_relevant_papers, papers_still_missing_citations)
        IN  /\ Len(ReferenceEntries(literature_survey))
                   = Len(w_relevant_papers) - Len(papers_still_missing_citations)
            /\ ReferencesPart(literature_survey) =
                   BlankLine \o Join(BlankLine, [i \in 1..Len(cited) |-> DraftEntry(cited[i])])

\* the same, for uncited papers whose title is not empty, is a whole word of the
\* paper's own entry and is not a whole word of another paper's entry
PruningCorrectnessDistinctTitles ==
    ( /\ w_pc = "returned"
      /\ papers_still_missing_citations # <<>>
      /\ OneEntryPerPaper(w_scanned, w_relevant_papers)
      /\ \A k \in 1..Len(papers_still_missing_citations) :
            /\ papers_still_missing_citations[k].title # <<>>
            /\ SearchWholeWord(papers_still_missing_citations[k].title,
                               DraftEntry(papers_still_missing_citations[k]))
            /\ \A i \in 1..Len(w_relevant_papers) :
                   SearchWholeWord(papers_still_missing_citations[k].title,
                                   DraftEntry(w_relevant_papers[i]))
                       => w_relevant_papers[i] = papers_still_missing_citations[k] ) =>
        LET cited == StillCited(w_relevant_papers, papers_still_missing_citations)
        IN  ReferencesPart(literature_survey) =
                BlankLine \o Join(BlankLine, [i \in 1..Len(cited) |-> DraftEntry(cited[i])])

(***************************************************************************)
(* writing.correct_references: the reference rebuild.  The function is     *)
(* imported by tests/test_writing.py and is not in writing.py; it is       *)
(* modelled from the specification (4.6, rebuild_references) and the test. *)
(***************************************************************************)
\* the characters of the model by code point
CharsByCodePoint ==
    <<"\t", "\n", " ", "#", "(", ")", ",", "-", ".">> \o DigitSeq \o <<";">>
    \o UpperSeq \o <<"_">> \o LowerSeq

Ord(c) == IndexIn(c, CharsByCodePoint)

\* Python's a < b on strings
RECURSIVE StrLess(_, _)
StrLess(a, b) ==
    IF b = <<>> THEN FALSE
    ELSE IF a = <<>> THEN TRUE
    ELSE IF Head(a) = Head(b) THEN StrLess(Tail(a), Tail(b))
    ELSE Ord(Head(a)) < Ord(Head(b))

\* the sort key: the first author's surname, "" for a paper without authors
SurnameKey(p) == IF p.authors = <<>> THEN <<>> ELSE p.authors[1].last_name

\* p inserted behind every element whose key is not greater: a stable sort step
InsertBySurname(sorted, p) ==
    LET later == {i \in 1..Len(sorted) : StrLess(SurnameKey(p), SurnameKey(sorted[i]))}
        at == IF later = {} THEN Len(sorted) + 1 ELSE SetMin(later)
    IN  SubSeq(sorted, 1, at - 1) \o <<p>> \o SubSeq(sorted, at, Len(sorted))

RECURSIVE SortedBySurname(_)
SortedBySurname(papers) ==
    IF papers = <<>> THEN <<>>
    ELSE InsertBySurname(SortedBySurname(SubSeq(papers, 1, Len(papers) - 1)),
                         papers[Len(papers)])

\* the papers one of whose citation forms occurs in the drafted text
CitedPapers(papers, survey) ==
    SelectSeq(papers,
              LAMBDA p : \/ Occurs(get_citation(p, TRUE), survey)
                         \/ Occurs(get_citation(p, FALSE), survey))

\* a slip of the rebuild: the text is kept whole and a new section is appended
correct_references_appending(survey, papers) ==
    LET ordered == SortedBySurname(CitedPapers(papers, survey))
    IN  survey \o BlankLine \o RefHeading \o BlankLine
        \o Join(BlankLine, [i \in 1..Len(ordered) |-> references_entry(ordered[i])])

\* correct_references(literature_survey, papers): the text up to the first heading,
\* the heading, and the canonical entries of the cited papers by surname
correct_references(survey, papers) ==
    LET ordered == SortedBySurname(CitedPapers(papers, survey))
    IN  Prefix(survey, Find(RefHeading, survey)) \o RefHeading \o BlankLine
        \o Join(BlankLine, [i \in 1..Len(ordered) |-> references_entry(ordered[i])])

\* tests/test_writing.py: the survey, the papers and the expected result
TestSurvey ==
    <<"#"," ","L","i","t","e","r","a","t","u","r","e"," ","S","u","r","v","e","y"," ",
      "o","n"," ","T","e","s","t","-","D","r","i","v","e","n"," ","D","e","v","e","l",
      "o","p","m","e","n","t","\n","\n","T","h","i","s"," ","i","s"," ","a"," ","d","u",
      "m","m","y"," ","l","i","t","e","r","a","t","u","r","e"," ","s","u","r","v","e",
      "y"," ","t","h","a","t"," ","c","i","t","e","s"," ","s","o","m","e"," ","p","a",
      "p","e","r","s",".","\n","\n","T","h","e","r","e"," ","i","s"," ","A","u","t","h",
      "o","r","1"," ","(","2","0","2","0",")"," ","a","n","d"," ","a","l","s","o"," ",
      "t","h","e"," ","o","t","h","e","r"," ","o","n","e"," ","(","A","u","t","h","o",
      "r","2"," ","e","t"," ","a","l",".",","," ","2","0","2","1",")",".","\n","\n","#",
      "#"," ","R","e","f","e","r","e","n","c","e","s","\n","\n","J","u","s","t"," ","a",
      " ","s","i","l","l","y"," ","r","e","f","e","r","e","n","c","e"," ","s","e","c",
      "t","i","o","n"," ","w","i","t","h"," ","n","o","t","h","i","n","g"," ","i","n",
      " ","i","t",".">>
TestExpected ==
    <<"#"," ","L","i","t","e","r","a","t","u","r","e"," ","S","u","r","v","e","y"," ",
      "o","n"," ","T","e","s","t","-","D","r","i","v","e","n"," ","D","e","v","e","l",
      "o","p","m","e","n","t","\n","\n","T","h","i","s"," ","i","s"," ","a"," ","d","u",
      "m","m","y"," ","l","i","t","e","r","a","t","u","r","e"," ","s","u","r","v","e",
      "y"," ","t","h","a","t"," ","c","i","t","e","s"," ","s","o","m","e"," ","p","a",
      "p","e","r","s",".","\n","\n","T","h","e","r","e"," ","i","s"," ","A","u","t","h",
      "o","r","1"," ","(","2","0","2","0",")"," ","a","n","d"," ","a","l","s","o"," ",
      "t","h","e"," ","o","t","h","e","r"," ","o","n","e"," ","(","A","u","t","h","o",
      "r","2"," ","e","t"," ","a","l",".",","," ","2","0","2","1",")",".","\n","\n","#",
      "#"," ","R","e","f","e","r","e","n","c","e","s","\n","\n","A","u","t","h","o","r",
      "1",","," ","F","i","r","s","t"," ","(","2","0","2","0",")","."," ","T","e","s",
      "t","-","D","r","i","v","e","n"," ","D","e","v","e","l","o","p","m","e","n","t",
      "."," ","_","J","o","u","r","n","a","l"," ","O","f"," ","T","e","s","t","i","n",
      "g","_",".","\n","\n","A","u","t","h","o","r","2",","," ","S","e","c","o","n","d",
      " ","a","n","d"," ","A","u","t","h","o","r","3",","," ","T","h","i","r","d"," ",
      "a","n","d"," ","A","u","t","h","o","r","4",","," ","F","o","u","r","t","h"," ",
      "(","2","0","2","1",")","."," ","A","n","o","t","h","e","r"," ","P","a","p","e",
      "r","."," ","_","C","o","n","f","e","r","e","n","c","e"," ","O","n"," ","T","e",
      "s","t","i","n","g","_",".">>
TestPapers ==
    << Paper(<<"T","e","s","t","-","D","r","i","v","e","n"," ","D","e","v","e","l","o","p","m","e","n","t">>,
             <<Author(<<"F","i","r","s","t">>, <<"A","u","t","h","o","r","1">>)>>, 2020,
             <<"J","o","u","r","n","a","l"," ","o","f"," ","T","e","s","t","i","n","g">>, <<"u","1">>, <<"s","1">>),
       Paper(<<"A","n","o","t","h","e","r"," ","P","a","p","e","r">>,
             <<Author(<<"S","e","c","o","n","d">>, <<"A","u","t","h","o","r","2">>),
               Author(<<"T","h","i","r","d">>, <<"A","u","t","h","o","r","3">>),
               Author(<<"F","o","u","r","t","h">>, <<"A","u","t","h","o","r","4">>)>>, 2021,
             <<"C","o","n","f","e","r","e","n","c","e"," ","o","n"," ","T","e","s","t","i","n","g">>, <<"u","2">>, <<"s","2">>),
       Paper(<<"U","n","u","s","e","d"," ","P","a","p","e","r">>,
             <<Author(<<"F","i","f","t","h">>, <<"A","u","t","h","o","r","5">>)>>, 2019,
             <<"O","l","d"," ","J","o","u","r","n","a","l">>, <<"u","3">>, <<"s","3">>) >>

\* the survey's papers in any order: the rebuild sorts them
PermutedLists(lists) ==
    UNION { { [k \in 1..Len(l) |-> l[f[k]]] :
                f \in {g \in [1..Len(l) -> 1..Len(l)] : Range(g) = 1..Len(l)} } : l \in lists }

RebuildInit ==
    /\ r_pc = "start"
    /\ \/ r_papers = TestPapers /\ r_survey = TestSurvey
       \/ /\ r_papers \in PermutedLists(SurveyPaperLists)
          /\ r_survey \in Drafts(r_papers)
    /\ r_once = <<>> /\ r_twice = <<>>

\* correct_references on a survey that holds the heading
Rebuild ==
    /\ r_pc = "start"
    /\ HasHeading(r_survey)
    /\ r_once' = correct_references(r_survey, r_papers)
    /\ r_pc' = "rebuilt"
    /\ UNCHANGED <<r_papers, r_survey, r_twice>>
    /\ UNCHANGED <<paperVars, queryVars, normVars, searchVars, writeVars, stageVars>>

\* a survey without the heading is a contract violation, surfaced to the caller
RebuildRaises ==
    /\ r_pc = "start"
    /\ ~HasHeading(r_survey)
    /\ r_pc' = "raised"
    /\ UNCHANGED <<r_papers, r_survey, r_once, r_twice>>
    /\ UNCHANGED <<paperVars, queryVars, normVars, searchVars, writeVars, stageVars>>

\* correct_references applied to its own result
RebuildAgain ==
    /\ r_pc = "rebuilt"
    /\ r_twice' = correct_references(r_once, r_papers)
    /\ r_pc' = "twice"
    /\ UNCHANGED <<r_papers, r_survey, r_once>>
    /\ UNCHANGED <<paperVars, queryVars, normVars, searchVars, writeVars, stageVars>>

RebuildNext == Rebuild \/ RebuildRaises \/ RebuildAgain

InitRebuild ==
    RebuildInit /\ PaperIdle /\ QueryIdle /\ NormIdle /\ SearchIdle /\ WriteIdle /\ StageIdle

SpecRebuild == InitRebuild /\ [][RebuildNext]_vars

\* the indices of the papers one of whose citation forms, as C4 states them, occurs
\* in the text
CitedByLaw(papers, survey) ==
    {i \in 1..Len(papers) :
        \/ Occurs(LawParenthetical(papers[i]), survey)
        \/ Occurs(LawNarrative(papers[i]), survey)}

Orderings(S) == {f \in [1..Cardinality(S) -> S] : Range(f) = S}

\* surnames do not decrease along the order, and papers of one surname keep the
\* order of the input list
BySurnameStable(papers, order) ==
    \A a, b \in 1..Len(order) :
        a < b => /\ ~StrLess(SurnameKey(papers[order[b]]), SurnameKey(papers[order[a]]))
                 /\ SurnameKey(papers[order[a]]) = SurnameKey(papers[order[b]])
                        => order[a] < order[b]

ReferenceRebuildReorders ==
    /\ r_pc = "rebuilt"
    /\ r_papers = <<PaperY, PaperX>>
    /\ CitedByLaw(r_papers, r_survey) = {1, 2}
    /\ r_once = Prefix(r_survey, Find(RefHeading, r_survey)) \o RefHeading \o BlankLine
                \o references_entry(PaperX) \o BlankLine \o references_entry(PaperY)

RepairDecided == w_pc \in {"revised", "rescanned", "returned", "raised"}

\* C16: a call of write_literature_survey makes at most two completion calls:
\* the draft, and the repair request, which is sent exactly when the scan of
\* the first draft found an uncited paper; nothing is requested after it,
\* also when the revised survey still misses citations.
SingleRepair ==
    /\ w_completions \in 0..2
    /\ (w_pc \in {"idle", "start"}) => w_completions = 0
    /\ (w_pc \in {"drafted", "scanned"}) => w_completions = 1
    /\ RepairDecided =>
          /\ w_completions >= 1
          /\ (w_completions = 2) <=> (papers_missing_citations # <<>>)

\* the repair was requested once, the revised survey still misses a paper, and
\* the function has returned
SingleRepairWitness ==
    /\ w_pc = "returned"
    /\ w_completions = 2
    /\ papers_still_missing_citations # <<>>

(***************************************************************************)
(* The heading and the second scan of write_literature_survey              *)
(***************************************************************************)
\* the function has ended and the survey the completion service produced last
\* holds no heading
FinalDraftLacksHeading ==
    /\ w_pc \in {"returned", "raised"}
    /\ ~Occurs(RefHeading, w_scanned)

\* C21: when the survey finally produced by the completion service holds no
\* `## References` heading, write_literature_survey raises instead of returning
\* a document, whether or not a paper is left uncited.
MissingMarkerFatal == FinalDraftLacksHeading => w_pc = "raised"

\* the same, when a paper is left uncited
MissingMarkerFatalWhenUncited ==
    (FinalDraftLacksHeading /\ papers_still_missing_citations # <<>>) => w_pc = "raised"

\* neither citation form of the paper occurs in the survey
UncitedIn(p, survey) ==
    /\ ~Occurs(LawParenthetical(p), survey)
    /\ ~Occurs(LawNarrative(p), survey)

InList(p, list) == \E k \in 1..Len(list) : list[k] = p

\* the paper was cited in the first draft and is not cited in the revised one
DroppedByRepair(p) ==
    /\ InList(p, w_relevant_papers)
    /\ w_completions = 2
    /\ ~InList(p, papers_missing_citations)
    /\ UncitedIn(p, w_scanned)

\* the second scan finds exactly the papers of the complete input list that the
\* final text does not cite
CompleteRescanDetects ==
    w_pc \in {"rescanned", "returned", "raised"} =>
        \A i \in 1..Len(w_relevant_papers) :
            UncitedIn(w_relevant_papers[i], w_scanned)
                <=> InList(w_relevant_papers[i], papers_still_missing_citations)

\* C23: the scan that decides what to prune runs over the complete input list
\* against the final text; a paper cited in the first draft and no longer cited
\* in the revised draft is detected as uncited and the returned survey holds no
\* reference line of it.
CompleteRescan ==
    /\ CompleteRescanDetects
    /\ w_pc = "returned" =>
          \A i \in 1..Len(w_relevant_papers) :
              DroppedByRepair(w_relevant_papers[i])
                  => ~HasEntry(w_relevant_papers[i], literature_survey)

\* the same, for surveys with one heading and dropped papers whose title is a
\* whole word of their own reference line
CompleteRescanWholeWordTitles ==
    /\ CompleteRescanDetects
    /\ (w_pc = "returned" /\ Cardinality(Positions(RefHeading, w_scanned)) = 1) =>
          \A i \in 1..Len(w_relevant_papers) :
              ( /\ DroppedByRepair(w_relevant_papers[i])
                /\ SearchWholeWord(w_relevant_papers[i].title,
                                   DraftEntry(w_relevant_papers[i])) )
                  => ~HasEntry(w_relevant_papers[i], literature_survey)

\* the pruning with the text split at the FIRST occurrence of the heading:
\* everything before it is the body, everything after it the References section
PrunedAtFirstHeading(survey, still_missing) ==
    LET at == Find(RefHeading, survey)
        lines == SplitLines(Strip(Suffix(survey, at + Len(RefHeading))))
        kept == SelectSeq(lines,
                          LAMBDA line : \A k \in 1..Len(still_missing) :
                                            ~SearchWholeWord(still_missing[k].title, line))
    IN  Strip(Prefix(survey, at)) \o BlankLine \o RefHeading \o BlankLine
        \o Strip(CollapseNewlines(Join(NewLine, kept)))

\* C24: when pruning, write_literature_survey splits the text at the first
\* occurrence of `## References`, also when the heading occurs more than once.
SplitOnFirstOccurrence ==
    (w_pc = "returned" /\ papers_still_missing_citations # <<>>) =>
        literature_survey = PrunedAtFirstHeading(w_scanned, papers_still_missing_citations)

\* the same, for surveys in which the heading occurs once
SplitOnOnlyOccurrence ==
    ( /\ w_pc = "returned"
      /\ papers_still_missing_citations # <<>>
      /\ Cardinality(Positions(RefHeading, w_scanned)) = 1 ) =>
        literature_survey = PrunedAtFirstHeading(w_scanned, papers_still_missing_citations)

(***************************************************************************)
(* JSON values as the index returns them, and Python's `x or default`      *)
(***************************************************************************)
JNull == [t |-> "null", v |-> <<>>]
JStr(s) == [t |-> "str", v |-> s]
JInt(n) == [t |-> "int", v |-> n]
JList(l) == [t |-> "list", v |-> l]
\* a dict is a function from its keys; a key that is missing is not in DOMAIN
JDict(d) == [t |-> "dict", v |-> d]

\* dict.get(key): None for a missing key
Get(d, key) == IF key \in DOMAIN d.v THEN d.v[key] ELSE JNull

\* bool(x): None, "", 0, [] and {} are false
Truthy(j) ==
    CASE j.t = "null" -> FALSE
      [] j.t = "str" -> j.v # <<>>
      [] j.t = "int" -> j.v # 0
      [] j.t = "list" -> j.v # <<>>
      [] j.t = "dict" -> DOMAIN j.v # {}

\* x or default
OrElse(j, default) == IF Truthy(j) THEN j ELSE default

(***************************************************************************)
(* find_papers: the record parsing of lines 240-264                        *)
(***************************************************************************)
Space == <<" ">>

\* author["name"].split(" ")[0] and [-1]; KeyError without the key, and
\* AttributeError when the name is None
AuthorOf(author) ==
    IF "name" \notin DOMAIN author.v THEN [error |-> "KeyError", author |-> Author(<<>>, <<>>)]
    ELSE IF author.v["name"].t # "str"
         THEN [error |-> "AttributeError", author |-> Author(<<>>, <<>>)]
    ELSE LET parts == Split(author.v["name"].v, Space)
         IN [error |-> "none", author |-> Author(parts[1], parts[Len(parts)])]

\* the list comprehension over the authors, which skips None; the first
\* exception ends it
RECURSIVE AuthorsOf(_)
AuthorsOf(authors) ==
    IF authors = <<>> THEN [error |-> "none", authors |-> <<>>]
    ELSE IF Head(authors).t = "null" THEN AuthorsOf(Tail(authors))
    ELSE LET first == AuthorOf(Head(authors))
             rest == AuthorsOf(Tail(authors))
         IN IF first.error # "none" THEN [error |-> first.error, authors |-> <<>>]
            ELSE IF rest.error # "none" THEN rest
            ELSE [error |-> "none", authors |-> <<first.author>> \o rest.authors]

\* Paper(...) of one record that is not None
PaperOf(result) ==
    LET authors == AuthorsOf(OrElse(Get(result, "authors"), JList(<<>>)).v)
    IN [error |-> authors.error,
        paper |-> Paper(
            OrElse(Get(result, "title"), JStr(<<>>)).v,
            authors.authors,
            OrElse(Get(result, "year"), JInt(-1)).v,
            OrElse(Get(OrElse(Get(result, "publicationVenue"), JDict(<<>>)), "name"),
                   JStr(<<>>)).v,
            OrElse(Get(OrElse(Get(result, "openAccessPdf"), JDict(<<>>)), "url"),
                   JStr(<<>>)).v,
            OrElse(Get(result, "abstract"), JStr(<<>>)).v)]

\* the list comprehension over the records, which skips None
RECURSIVE PapersOf(_)
PapersOf(results) ==
    IF results = <<>> THEN [error |-> "none", papers |-> <<>>]
    ELSE IF Head(results).t = "null" THEN PapersOf(Tail(results))
    ELSE LET first == PaperOf(Head(results))
             rest == PapersOf(Tail(results))
         IN IF first.error # "none" THEN [error |-> first.error, papers |-> <<>>]
            ELSE IF rest.error # "none" THEN rest
            ELSE [error |-> "none", papers |-> <<first.paper>> \o rest.papers]

\* lines 240-264 on the body of a successful response
ParseBody(json) ==
    IF json.t = "null" THEN [error |-> "none", papers |-> <<>>]
    ELSE PapersOf(OrElse(Get(json, "data"), JList(<<>>)).v)

\* line 232: the message by which the index reports an offset out of range
OffsetNotAvailable == <<"t","h","i","s"," ","l","i","m","i","t"," ","a","n","d","/","o","r"," ","o","f","f","s","e","t"," ","i","s"," ","n","o","t"," ","a","v","a","i","l","a","b","l","e">>

IsOffsetSignal(response) ==
    response.status = 400 /\ Occurs(OffsetNotAvailable, Lower(response.text))

\* httpx: raise_for_status raises for every status outside 2xx
IsSuccess(status) == status \in 200..299

(***************************************************************************)
(* find_papers as a state machine against the paper index                  *)
(***************************************************************************)
\* the number of 429 answers in a row that the index gives
MaxRetries == 2
\* the number of records on a page
MaxRecords == 2

\* records of the index: complete, empty, with every field null, with falsy
\* and nested-missing fields, and with authors that have no usable name
RecordFull ==
    JDict([title |-> JStr(<<"a", "b">>),
           authors |-> JList(<<JDict([name |-> JStr(<<"W", "e", "i", " ", "L", "i">>)])>>),
           year |-> JInt(2020),
           publicationVenue |-> JDict([name |-> JStr(<<"j">>)]),
           openAccessPdf |-> JDict([url |-> JStr(<<"u">>)]),
           abstract |-> JStr(<<"s">>)])
RecordEmpty == JDict(<<>>)
RecordNulls ==
    JDict([title |-> JNull, authors |-> JNull, year |-> JNull,
           publicationVenue |-> JNull, openAccessPdf |-> JNull, abstract |-> JNull])
RecordSparse ==
    JDict([title |-> JStr(<<>>),
           authors |-> JList(<<JNull, JDict([name |-> JStr(<<"L", "i">>)])>>),
           year |-> JInt(0),
           publicationVenue |-> JDict(<<>>),
           openAccessPdf |-> JDict([url |-> JNull])])
RecordNullName == JDict([title |-> JStr(<<"c">>), authors |-> JList(<<JDict([name |-> JNull])>>)])
RecordNoName == JDict([title |-> JStr(<<"d">>), authors |-> JList(<<JDict(<<>>)>>)])

RecordPool ==
    {JNull, RecordFull, RecordEmpty, RecordNulls, RecordSparse, RecordNullName,
     RecordNoName}

\* the bodies of a 200 response
Bodies ==
    {JNull, JDict(<<>>), JDict([data |-> JNull])}
    \cup {JDict([data |-> JList(l)]) : l \in SeqsUpTo(RecordPool, MaxRecords)}

Response(status, text, json) == [status |-> status, text |-> text, json |-> json]

\* what the index can answer to one request
Responses ==
    {Response(200, <<>>, b) : b \in Bodies}
    \cup {Response(429, <<>>, JNull)}
    \cup {Response(400, <<"R","e","q","u","e","s","t","e","d"," ","d","a","t","a"," ","f","o","r"," ","t","h","i","s"," ","l","i","m","i","t"," ","a","n","d","/","o","r"," ","o","f","f","s","e","t"," ","i","s"," ","n","o","t"," ","a","v","a","i","l","a","b","l","e">>, JNull),
          Response(400, <<"B","a","d"," ","R","e","q","u","e","s","t">>, JNull),
          Response(404, <<>>, JNull), Response(500, <<>>, JNull)}

\* the parameters of a request that the code varies
Request(query, limit, start) == <<query, limit, start>>

FindInit ==
    /\ f_pc = "request"
    /\ f_query \in {<<"q">>, <<"r">>}
    /\ f_num_results \in {1, 2}
    /\ f_offset \in {0, 2}
    /\ f_sent = <<>> /\ f_responses = <<>> /\ f_sleeps = 0
    /\ f_result = [kind |-> "unset", papers |-> <<>>] /\ f_error = "none"

LastResponse == f_responses[Len(f_responses)]

\* 206-223: httpx.get sends the request and the index answers
SendRequest ==
    /\ f_pc = "request"
    /\ \E response \in Responses :
          /\ response.status = 429 => Len(f_responses) < MaxRetries
          /\ f_responses' = Append(f_responses, response)
    /\ f_sent' = Append(f_sent, Request(f_query, f_num_results, f_offset))
    /\ f_pc' = "responded"
    /\ UNCHANGED <<f_query, f_num_results, f_offset, f_sleeps, f_result, f_error>>
    /\ UNCHANGED notFindVars

\* 206-223: httpx.get raises (no connection, or the 30 s timeout)
RequestFails ==
    /\ f_pc = "request"
    /\ f_sent' = Append(f_sent, Request(f_query, f_num_results, f_offset))
    /\ f_pc' = "raised"
    /\ f_error' = "TransportError"
    /\ UNCHANGED <<f_query, f_num_results, f_offset, f_responses, f_sleeps, f_result>>
    /\ UNCHANGED notFindVars

\* a 429 that is answered with an empty page
BackoffGivesUp ==
    /\ f_pc = "responded"
    /\ LastResponse.status = 429
    /\ f_result' = [kind |-> "list", papers |-> <<>>]
    /\ f_pc' = "returned"
    /\ UNCHANGED <<f_query, f_num_results, f_offset, f_sent, f_responses, f_sleeps,
                   f_error>>
    /\ UNCHANGED notFindVars

\* 224-230: a 429: sleep ten seconds and send the request again
Backoff ==
    /\ f_pc = "responded"
    /\ LastResponse.status = 429
    /\ f_sleeps' = f_sleeps + 1
    /\ f_pc' = "request"
    /\ UNCHANGED <<f_query, f_num_results, f_offset, f_sent, f_responses, f_result,
                   f_error>>
    /\ UNCHANGED notFindVars

\* 231-233: a 400 with the offset message: None
ReturnNone ==
    /\ f_pc = "responded"
    /\ LastResponse.status = 400
    /\ IsOffsetSignal(LastResponse)
    /\ f_result' = [kind |-> "none", papers |-> <<>>]
    /\ f_pc' = "returned"
    /\ UNCHANGED <<f_query, f_num_results, f_offset, f_sent, f_responses, f_sleeps,
                   f_error>>
    /\ UNCHANGED notFindVars

\* 231-237: any other 400: an error is logged and an empty list returned
ReturnEmptyOnBadRequest ==
    /\ f_pc = "responded"
    /\ LastResponse.status = 400
    /\ ~IsOffsetSignal(LastResponse)
    /\ f_result' = [kind |-> "list", papers |-> <<>>]
    /\ f_pc' = "returned"
    /\ UNCHANGED <<f_query, f_num_results, f_offset, f_sent, f_responses, f_sleeps,
                   f_error>>
    /\ UNCHANGED notFindVars

\* 238-239: any other status outside 2xx: raise_for_status raises
RaiseForStatus ==
    /\ f_pc = "responded"
    /\ LastResponse.status \notin {429, 400}
    /\ ~IsSuccess(LastResponse.status)
    /\ f_error' = "HTTPStatusError"
    /\ f_pc' = "raised"
    /\ UNCHANGED <<f_query, f_num_results, f_offset, f_sent, f_responses, f_sleeps,
                   f_result>>
    /\ UNCHANGED notFindVars

\* 240-264: a successful response whose records all parse
ReturnParsed ==
    /\ f_pc = "responded"
    /\ IsSuccess(LastResponse.status)
    /\ ParseBody(LastResponse.json).error = "none"
    /\ f_result' = [kind |-> "list", papers |-> ParseBody(LastResponse.json).papers]
    /\ f_pc' = "returned"
    /\ UNCHANGED <<f_query, f_num_results, f_offset, f_sent, f_responses, f_sleeps,
                   f_error>>
    /\ UNCHANGED notFindVars

\* 245-263: a successful response with a record that raises while it is parsed
ParseRaises ==
    /\ f_pc = "responded"
    /\ IsSuccess(LastResponse.status)
    /\ ParseBody(LastResponse.json).error # "none"
    /\ f_error' = ParseBody(LastResponse.json).error
    /\ f_pc' = "raised"
    /\ UNCHANGED <<f_query, f_num_results, f_offset, f_sent, f_responses, f_sleeps,
                   f_result>>
    /\ UNCHANGED notFindVars

FindNext ==
    \/ SendRequest \/ RequestFails \/ Backoff \/ ReturnNone \/ ReturnEmptyOnBadRequest
    \/ RaiseForStatus \/ ReturnParsed \/ ParseRaises

InitFind == FindInit /\ CoreIdle /\ SumIdle /\ MainIdle /\ FinalIdle /\ EqIdle

SpecFind == InitFind /\ [][FindNext]_vars

(***************************************************************************)
(* Claims about find_papers                                                *)
(***************************************************************************)
Answered == f_responses # <<>>
All429(k) == \A i \in 1..k : f_responses[i].status = 429

\* a status that is neither success, nor 429, nor the offset signal
IsFatal(response) ==
    /\ ~IsSuccess(response.status)
    /\ response.status # 429
    /\ ~IsOffsetSignal(response)

\* C11: a response whose status is neither success, nor 429, nor the
\* out-of-range-offset signal makes the call raise: after it no request is
\* sent again and no normal result (None, a page, an empty page) is returned.
FatalIndexErrors ==
    (Answered /\ IsFatal(LastResponse)) =>
        /\ f_pc \in {"responded", "raised"}
        /\ f_result.kind = "unset"
        /\ f_pc = "raised" => f_error = "HTTPStatusError"

\* the same for every status but 400
FatalIndexErrorsBut400 ==
    (Answered /\ IsFatal(LastResponse) /\ LastResponse.status # 400) =>
        /\ f_pc \in {"responded", "raised"}
        /\ f_result.kind = "unset"
        /\ f_pc = "raised" => f_error = "HTTPStatusError"

\* C12: every request carries the query, limit and offset of the call; while
\* all answers so far are 429 the call has neither returned nor raised on a
\* response, each 429 is followed by one sleep and one more request, whatever
\* their number, and the call ends on the first answer that is not a 429.
RateLimitRetry ==
    /\ \A i \in DOMAIN f_sent : f_sent[i] = Request(f_query, f_num_results, f_offset)
    /\ Answered => All429(Len(f_responses) - 1)
    /\ (Answered /\ All429(Len(f_responses))) =>
          /\ f_result.kind = "unset"
          /\ f_pc \in {"request", "responded"}
                \/ (f_pc = "raised" /\ f_error = "TransportError")
    /\ f_pc = "request" =>
          /\ All429(Len(f_responses))
          /\ f_sleeps = Len(f_responses)
          /\ Len(f_sent) = Len(f_responses)
    /\ f_pc = "responded" =>
          /\ Len(f_sent) = Len(f_responses)
          /\ f_sleeps = Len(f_responses) - 1
    /\ f_pc = "returned" =>
          /\ Answered /\ LastResponse.status # 429
          /\ f_result.kind # "unset"
          /\ f_sleeps = Len(f_responses) - 1
    /\ (f_pc = "raised" /\ f_error # "TransportError") =>
          Answered /\ LastResponse.status # 429

\* the index answered 429 as often as the model lets it, and the call then
\* returned the page of the answer that followed
RateLimitRetryWitness ==
    /\ f_pc = "returned"
    /\ f_sleeps = MaxRetries
    /\ Len(f_sent) = MaxRetries + 1
    /\ f_result.kind = "list" /\ f_result.papers # <<>>

\* the records of a body that are not None
RecordsOf(json) ==
    IF json.t = "null" THEN <<>>
    ELSE SelectSeq(OrElse(Get(json, "data"), JList(<<>>)).v, LAMBDA r : r.t # "null")

MissingOrNull(d, key) == key \notin DOMAIN d.v \/ d.v[key].t = "null"

\* the defaults of one record
HasDefaults(record, paper) ==
    /\ MissingOrNull(record, "title") => paper.title = <<>>
    /\ MissingOrNull(record, "authors") => paper.authors = <<>>
    /\ MissingOrNull(record, "year") => paper.year = -1
    /\ MissingOrNull(record, "publicationVenue") => paper.venue = <<>>
    /\ MissingOrNull(record, "openAccessPdf") => paper.url = <<>>
    /\ MissingOrNull(record, "abstract") => paper.summary = <<>>
    /\ (~MissingOrNull(record, "publicationVenue")
            /\ MissingOrNull(record.v["publicationVenue"], "name")) => paper.venue = <<>>
    /\ (~MissingOrNull(record, "openAccessPdf")
            /\ MissingOrNull(record.v["openAccessPdf"], "url")) => paper.url = <<>>

\* C13: on a successful response find_papers does not raise, and returns one
\* Paper for every record that is not null, with "" for a missing or null
\* title, venue, url or abstract, -1 for a missing or null year and no authors
\* for missing or null authors, also when an author object has no name or a
\* null name.
TolerantParsing ==
    (Answered /\ IsSuccess(LastResponse.status)) =>
        /\ f_pc \in {"responded", "returned"}
        /\ f_pc = "returned" =>
              /\ f_result.kind = "list"
              /\ Len(f_result.papers) = Len(RecordsOf(LastResponse.json))
              /\ \A i \in DOMAIN f_result.papers :
                    HasDefaults(RecordsOf(LastResponse.json)[i], f_result.papers[i])

\* every author object of the record has a name that is a string
AuthorsNamed(record) ==
    MissingOrNull(record, "authors")
    \/ \A i \in DOMAIN record.v["authors"].v :
          LET author == record.v["authors"].v[i]
          IN author.t = "null" \/ ~MissingOrNull(author, "name")

\* the same for responses in which every author has a name
TolerantParsingNamedAuthors ==
    (/\ Answered /\ IsSuccess(LastResponse.status)
     /\ \A i \in DOMAIN RecordsOf(LastResponse.json) :
           AuthorsNamed(RecordsOf(LastResponse.json)[i])) =>
        /\ f_pc \in {"responded", "returned"}
        /\ f_pc = "returned" =>
              /\ f_result.kind = "list"
              /\ Len(f_result.papers) = Len(RecordsOf(LastResponse.json))
              /\ \A i \in DOMAIN f_result.papers :
                    HasDefaults(RecordsOf(LastResponse.json)[i], f_result.papers[i])

(***************************************************************************)
(* summarise_paper and the exceptions of parse_pdf                         *)
(***************************************************************************)
\* the base class of each exception class that parse_pdf can raise (httpx
\* and docling)
Bases ==
    [HTTPStatusError |-> "HTTPError", HTTPError |-> "Exception",
     ConnectError |-> "NetworkError", NetworkError |-> "TransportError",
     ConnectTimeout |-> "TimeoutException", ReadTimeout |-> "TimeoutException",
     TimeoutException |-> "TransportError", TransportError |-> "RequestError",
     RequestError |-> "HTTPError",
     ConversionError |-> "BaseError", BaseError |-> "RuntimeError",
     RuntimeError |-> "Exception"]

\* isinstance(exception of class cls, base)
RECURSIVE IsInstance(_, _)
IsInstance(cls, base) ==
    \/ cls = base
    \/ cls \in DOMAIN Bases /\ IsInstance(Bases[cls], base)

\* summarisation.py 40
num_attempts == 3
\* summarisation.py 73
max_content_length == 150000

\* The content of a document is held as the runs of its characters, "aab" as
\* <<<<"a", 2>>, <<"b", 1>>>>: a document of 150,000 characters is a few runs.
PackAppend(runs, c, n) ==
    IF n = 0 THEN runs
    ELSE IF runs # <<>> /\ runs[Len(runs)][1] = c
         THEN [runs EXCEPT ![Len(runs)] = <<c, @[2] + n>>]
    ELSE Append(runs, <<c, n>>)

\* a + b
RECURSIVE PackConcat(_, _)
PackConcat(a, b) ==
    IF b = <<>> THEN a ELSE PackConcat(PackAppend(a, b[1][1], b[1][2]), Tail(b))

\* the runs of a string
RECURSIVE Pack(_)
Pack(s) ==
    IF s = <<>> THEN <<>> ELSE PackAppend(Pack(SubSeq(s, 1, Len(s) - 1)), s[Len(s)], 1)

\* len(a)
RECURSIVE PackLen(_)
PackLen(a) == IF a = <<>> THEN 0 ELSE a[1][2] + PackLen(Tail(a))

\* a[:n], for n >= 0
RECURSIVE PackPrefix(_, _)
PackPrefix(a, n) ==
    IF n <= 0 \/ a = <<>> THEN <<>>
    ELSE IF a[1][2] >= n THEN <<<<a[1][1], n>>>>
    ELSE <<a[1]>> \o PackPrefix(Tail(a), n - a[1][2])

\* a[-n:], for n > 0
RECURSIVE PackSuffix(_, _)
PackSuffix(a, n) ==
    IF n <= 0 \/ a = <<>> THEN <<>>
    ELSE LET last == a[Len(a)]
         IN  IF last[2] >= n THEN <<<<last[1], n>>>>
             ELSE PackSuffix(SubSeq(a, 1, Len(a) - 1), n - last[2]) \o <<last>>

\* a document of n >= max_content_length characters: a head and a tail of half
\* the ceiling each, and a middle between them
Document(n) ==
    PackConcat(PackAppend(<<<<"h", max_content_length \div 2>>>>, "m",
                          n - 2 * (max_content_length \div 2)),
               <<<<"t", max_content_length \div 2>>>>)

Returned(markdown) == [kind |-> "ok", class |-> "none", status |-> 200, markdown |-> markdown]
Raised(cls, status) == [kind |-> "raise", class |-> cls, status |-> status, markdown |-> <<>>]

\* 126-164: what one call of parse_pdf can do: return the Markdown of the
\* document (which may be empty), or raise from httpx.get, from
\* raise_for_status or from the converter
ParsePdfOutcomes ==
    {Returned(<<>>), Returned(Pack(<<"t", "e", "x", "t">>))}
    \cup {Returned(Document(max_content_length + extra)) : extra \in {0, 1, 2}}
    \cup {Raised("HTTPStatusError", status) : status \in {403, 404, 500}}
    \cup {Raised(cls, 0) : cls \in {"ConnectError", "ConnectTimeout", "ReadTimeout",
                                    "ConversionError"}}

\* a handler that treats 403 like every other status
HandlerRetrying403(outcome) ==
    IF IsInstance(outcome.class, "HTTPStatusError") THEN "retry"
    ELSE IF IsInstance(outcome.class, "ConnectError")
            \/ IsInstance(outcome.class, "ConnectTimeout") THEN "retry"
    ELSE IF IsInstance(outcome.class, "ConversionError") THEN "break"
    ELSE "propagate"

\* 44-66: the except clauses in their order: leave the loop, sleep and go on
\* with the loop, or no clause matches and the exception propagates
Handler(outcome) ==
    IF IsInstance(outcome.class, "HTTPStatusError")
    THEN IF outcome.status = 403 THEN "break" ELSE "retry"
    ELSE IF IsInstance(outcome.class, "ConnectError")
            \/ IsInstance(outcome.class, "ConnectTimeout") THEN "retry"
    ELSE IF IsInstance(outcome.class, "ConversionError") THEN "break"
    ELSE "propagate"

Truncated == <<"\n","\n","(",".",".",".","c","o","n","t","e","n","t"," ","t","r","u","n","c","a","t","e","d",".",".",".",")","\n","\n">>

\* a truncation that keeps the head only
TruncateKeepingHead(content) ==
    IF PackLen(content) > max_content_length
    THEN PackConcat(PackPrefix(content, max_content_length), Pack(Truncated))
    ELSE content

\* 72-80: the middle of a long content is cut out
Truncate(content) ==
    IF PackLen(content) > max_content_length
    THEN PackConcat(PackConcat(PackPrefix(content, max_content_length \div 2),
                               Pack(Truncated)),
                    PackSuffix(content, max_content_length \div 2))
    ELSE content

\* 87-90: the content built from the title and the summary of the paper
FallbackContent(paper) ==
    <<"#", " ">> \o paper.title
    \o (IF paper.summary # <<>> THEN <<"\n","\n","#","#"," ","S","u","m","m","a","r","y","\n","\n">> \o paper.summary ELSE <<>>)

\* 72-90
PromptContent(content, paper) ==
    IF Truncate(content) = <<>> THEN Pack(FallbackContent(paper)) ELSE Truncate(content)

SumPapers ==
    {Paper(<<"a", "b">>, <<>>, 2020, <<>>, url, summary) :
        url \in {<<>>, <<"u">>}, summary \in {<<>>, <<"s">>}}

SumInit ==
    /\ u_pc = "start"
    /\ u_paper \in SumPapers
    /\ u_attempts = <<>> /\ u_sleeps = 0 /\ u_content = <<>> /\ u_summary = <<>>
    /\ u_error = "none"

\* 36-39: no url: nothing is fetched
SkipFetch ==
    /\ u_pc = "start"
    /\ u_paper.url = <<>>
    /\ u_pc' = "fetched"
    /\ UNCHANGED <<u_paper, u_attempts, u_sleeps, u_content, u_summary, u_error>>
    /\ UNCHANGED notSumVars

\* 39-40: a url: enter the loop
EnterFetchLoop ==
    /\ u_pc = "start"
    /\ u_paper.url # <<>>
    /\ u_pc' = "fetch"
    /\ UNCHANGED <<u_paper, u_attempts, u_sleeps, u_content, u_summary, u_error>>
    /\ UNCHANGED notSumVars

\* 41-43: parse_pdf returns: keep the content and leave the loop
FetchSucceeds ==
    /\ u_pc = "fetch"
    /\ \E outcome \in ParsePdfOutcomes :
          /\ outcome.kind = "ok"
          /\ u_attempts' = Append(u_attempts, outcome)
          /\ u_content' = outcome.markdown
    /\ u_pc' = "fetched"
    /\ UNCHANGED <<u_paper, u_sleeps, u_summary, u_error>>
    /\ UNCHANGED notSumVars

\* 44-49, 61-66: a 403 or a conversion error: leave the loop
FetchBreaks ==
    /\ u_pc = "fetch"
    /\ \E outcome \in ParsePdfOutcomes :
          /\ outcome.kind = "raise" /\ Handler(outcome) = "break"
          /\ u_attempts' = Append(u_attempts, outcome)
    /\ u_pc' = "fetched"
    /\ UNCHANGED <<u_paper, u_sleeps, u_content, u_summary, u_error>>
    /\ UNCHANGED notSumVars

\* 50-60, 67-70: another HTTP error or a connection error: sleep a second; the
\* loop goes on unless this was the last of its num_attempts rounds
FetchRetries ==
    /\ u_pc = "fetch"
    /\ \E outcome \in ParsePdfOutcomes :
          /\ outcome.kind = "raise" /\ Handler(outcome) = "retry"
          /\ u_attempts' = Append(u_attempts, outcome)
    /\ u_sleeps' = u_sleeps + 1
    /\ u_pc' = IF Len(u_attempts) + 1 < num_attempts THEN "fetch" ELSE "fetched"
    /\ UNCHANGED <<u_paper, u_content, u_summary, u_error>>
    /\ UNCHANGED notSumVars

\* 41-66: an exception that no except clause names leaves summarise_paper
FetchPropagates ==
    /\ u_pc = "fetch"
    /\ \E outcome \in ParsePdfOutcomes :
          /\ outcome.kind = "raise" /\ Handler(outcome) = "propagate"
          /\ u_attempts' = Append(u_attempts, outcome)
          /\ u_error' = outcome.class
    /\ u_pc' = "raised"
    /\ UNCHANGED <<u_paper, u_sleeps, u_content, u_summary>>
    /\ UNCHANGED notSumVars

\* 72-123: truncate or fall back, ask for the summary and return it
Summarise ==
    /\ u_pc = "fetched"
    /\ u_content' = PromptContent(u_content, u_paper)
    /\ u_summary' \in {<<"x">>, <<"y">>}
    /\ u_pc' = "returned"
    /\ UNCHANGED <<u_paper, u_attempts, u_sleeps, u_error>>
    /\ UNCHANGED notSumVars

\* 112-122: the completion service fails, or its answer is not a Summary
SummariseRaises ==
    /\ u_pc = "fetched"
    /\ u_content' = PromptContent(u_content, u_paper)
    /\ u_error' \in {"CompletionError", "ValidationError"}
    /\ u_pc' = "raised"
    /\ UNCHANGED <<u_paper, u_attempts, u_sleeps, u_summary>>
    /\ UNCHANGED notSumVars

SumNext ==
    \/ SkipFetch \/ EnterFetchLoop \/ FetchSucceeds \/ FetchBreaks \/ FetchRetries
    \/ FetchPropagates \/ Summarise \/ SummariseRaises

InitSum == SumInit /\ CoreIdle /\ FindIdle /\ MainIdle /\ FinalIdle /\ EqIdle

SpecSum == InitSum /\ [][SumNext]_vars

(***************************************************************************)
(* Claims about summarise_paper                                            *)
(***************************************************************************)
Attempts == Len(u_attempts)
IsForbidden(outcome) == outcome.class = "HTTPStatusError" /\ outcome.status = 403
IsOtherHTTPError(outcome) == outcome.class = "HTTPStatusError" /\ outcome.status # 403
IsConnectionError(outcome) == outcome.class \in {"ConnectError", "ConnectTimeout"}
IsConversionError(outcome) == outcome.class = "ConversionError"
\* the fetch produced no document
FetchFailed == \A i \in DOMAIN u_attempts : u_attempts[i].kind # "ok"

\* C14: no failure of the fetch or of the conversion makes summarise_paper
\* raise: when every call of parse_pdf failed (an HTTP error status, a
\* connection error, a timeout, a conversion error) the function goes on to
\* the completion call with the content built from title and summary.
SummariserDegrades ==
    /\ u_pc = "raised" => u_error \in {"CompletionError", "ValidationError"}
    /\ (u_pc \in {"returned", "raised"} /\ FetchFailed) =>
          u_content = Pack(FallbackContent(u_paper))

\* the same when no call of parse_pdf ends in a read timeout
SummariserDegradesButReadTimeout ==
    (\A i \in DOMAIN u_attempts : u_attempts[i].class # "ReadTimeout") =>
        /\ u_pc = "raised" => u_error \in {"CompletionError", "ValidationError"}
        /\ (u_pc \in {"returned", "raised"} /\ FetchFailed) =>
              u_content = Pack(FallbackContent(u_paper))

\* C15: parse_pdf is called at most num_attempts = 3 times for a paper and not
\* at all without a url; every call but the last ended in a connection error
\* or in an HTTP error other than 403 (so none follows a success, a 403 or a
\* conversion error), and after such an outcome the loop is left only when
\* three calls were made.
BoundedFetchRetry ==
    /\ Attempts <= 3
    /\ u_paper.url = <<>> => Attempts = 0
    /\ \A i \in 1..(Attempts - 1) :
          /\ u_attempts[i].kind = "raise"
          /\ ~IsForbidden(u_attempts[i]) /\ ~IsConversionError(u_attempts[i])
          /\ IsOtherHTTPError(u_attempts[i]) \/ IsConnectionError(u_attempts[i])
    /\ (/\ Attempts \in 1..2
        /\ IsOtherHTTPError(u_attempts[Attempts]) \/ IsConnectionError(u_attempts[Attempts]))
          => u_pc = "fetch"
    /\ (u_pc = "fetch" /\ Attempts > 0) => u_sleeps = Attempts
    /\ (u_paper.url # <<>> /\ u_pc \in {"fetched", "returned"}) => Attempts >= 1

\* two failed calls were retried and the third returned the document
BoundedFetchRetryWitness ==
    /\ u_pc = "returned"
    /\ Attempts = 3
    /\ IsOtherHTTPError(u_attempts[1])
    /\ IsConnectionError(u_attempts[2])
    /\ u_attempts[3].kind = "ok"

\* parse_pdf returned a document, and the document it returned
DocumentFetched == Attempts > 0 /\ u_attempts[Attempts].kind = "ok"
Fetched == u_attempts[Attempts].markdown
\* the content for the prompt has been built
PromptBuilt ==
    \/ u_pc = "returned"
    \/ u_pc = "raised" /\ u_error \in {"CompletionError", "ValidationError"}

\* the first and the last `half` characters of the content around the marker
HeadAndTail(content, half) ==
    PackConcat(PackConcat(PackPrefix(content, half), Pack(Truncated)),
               PackSuffix(content, half))

\* a document longer than the ceiling goes into the prompt as its head, the
\* marker and its tail, and not as the fallback
LongDocumentTruncated ==
    (PromptBuilt /\ DocumentFetched /\ PackLen(Fetched) > 150000) =>
        /\ u_content = HeadAndTail(Fetched, 75000)
        /\ PackLen(u_content) = 150000 + Len(Truncated)
        /\ u_content # Pack(FallbackContent(u_paper))

\* C25, as stated: a fetched document longer than L = 150,000 characters goes into
\* the prompt as its first L/2 characters, the marker and its last L/2
\* characters, L plus the length of the marker in all, and is not replaced by
\* the fallback; a fetched document of at most L characters goes into the prompt
\* unchanged.
HeadAndTailTruncation ==
    /\ LongDocumentTruncated
    /\ (PromptBuilt /\ DocumentFetched /\ PackLen(Fetched) <= 150000) =>
          u_content = Fetched

\* C25, amended: the same, where a fetched document of at most L characters goes
\* into the prompt unchanged unless it is empty; an empty document is replaced
\* by the fallback built from title and summary.
HeadAndTailTruncationAmended ==
    /\ LongDocumentTruncated
    /\ (PromptBuilt /\ DocumentFetched /\ PackLen(Fetched) <= 150000 /\ Fetched # <<>>) =>
          u_content = Fetched
    /\ (PromptBuilt /\ DocumentFetched /\ Fetched = <<>>) =>
          u_content = Pack(FallbackContent(u_paper))

\* a document of L + 1 characters was fetched and went into the prompt without
\* its middle character
HeadAndTailTruncationWitness ==
    /\ u_pc = "returned"
    /\ DocumentFetched
    /\ Fetched = <<<<"h", 75000>>, <<"m", 1>>, <<"t", 75000>>>>
    /\ u_content = <<<<"h", 75000>>>> \o Pack(Truncated) \o <<<<"t", 75000>>>>

(***************************************************************************)
(* cli.main: search, summarise, filter again, write, save, render          *)
(***************************************************************************)
\* the number of papers the search returns
MaxMainPapers == 2

\* papers as the search returns them: the summary holds the abstract
MainPaperPool ==
    {Paper(<<"a">>, <<>>, 2020, <<>>, <<>>, <<>>),
     Paper(<<"b">>, <<>>, 2021, <<>>, <<"u">>, <<"s">>)}

\* what summarise_paper returns
SummaryPool == {<<"x">>, <<"y">>}

\* the states of a command-line tool: not on the PATH, on the PATH but
\* failing, working
ToolStates == {"missing", "failing", "ok"}

\* subprocess.run([tool, "--version"]).returncode == 0, where running a
\* program that is not on the PATH raises FileNotFoundError
VersionProbe(tool) ==
    CASE tool = "missing" -> "FileNotFoundError"
      [] tool = "failing" -> "not installed"
      [] tool = "ok" -> "installed"

File(text) == [exists |-> TRUE, text |-> text]

\* the paper at position i with its summary replaced
WithSummary(list, i, summary) ==
    [list EXCEPT ![i] = [list[i] EXCEPT !.summary = summary]]

MainInit ==
    /\ m_pc = "search" /\ m_papers = <<>> /\ m_idx = 0 /\ m_kept = <<>> /\ m_survey = <<>>
    /\ markdown_file = NoFile /\ pdf_file = NoFile
    /\ m_pandoc \in ToolStates /\ m_pdflatex \in ToolStates /\ m_error = "none"
    /\ m_collected = <<>> /\ m_set = <<>> /\ m_checked = <<>> /\ m_verdicts = <<>>
    /\ m_written = <<>>

\* 118-125: get_all_papers returns the collected papers
SearchReturns ==
    /\ m_pc = "search"
    /\ \E found \in SeqsUpTo(MainPaperPool, MaxMainPapers) :
          /\ m_papers' = found
          /\ m_collected' = found
          /\ m_set' = [i \in DOMAIN found |-> 0]
    /\ m_idx' = 1
    /\ m_pc' = "summarise"
    /\ UNCHANGED <<m_kept, m_survey, markdown_file, pdf_file, m_pandoc, m_pdflatex,
                   m_error, m_checked, m_verdicts, m_written>>
    /\ UNCHANGED notMainVars

\* 118-125: get_all_papers raises
SearchRaises ==
    /\ m_pc = "search"
    /\ m_error' = "search"
    /\ m_pc' = "raised"
    /\ UNCHANGED <<m_papers, m_idx, m_kept, m_survey, markdown_file, pdf_file,
                   m_pandoc, m_pdflatex, m_collected, m_set, m_checked, m_verdicts,
                   m_written>>
    /\ UNCHANGED notMainVars

\* a loop that is left before its last paper
SummariseLeavesEarly ==
    /\ m_pc = "summarise"
    /\ m_idx' = 1
    /\ m_pc' = "refilter"
    /\ UNCHANGED <<m_papers, m_kept, m_survey, markdown_file, pdf_file, m_pandoc,
                   m_pdflatex, m_error, m_collected, m_set, m_checked, m_verdicts,
                   m_written>>
    /\ UNCHANGED notMainVars

\* 127-137: the next paper of the loop gets the summary that summarise_paper returns
SummariseNext ==
    /\ m_pc = "summarise"
    /\ m_idx <= Len(m_papers)
    /\ \E summary \in SummaryPool : m_papers' = WithSummary(m_papers, m_idx, summary)
    /\ m_set' = [m_set EXCEPT ![m_idx] = @ + 1]
    /\ m_idx' = m_idx + 1
    /\ UNCHANGED <<m_pc, m_kept, m_survey, markdown_file, pdf_file, m_pandoc,
                   m_pdflatex, m_error, m_collected, m_checked, m_verdicts, m_written>>
    /\ UNCHANGED notMainVars

\* 135-137: summarise_paper raises
SummariseFails ==
    /\ m_pc = "summarise"
    /\ m_idx <= Len(m_papers)
    /\ m_error' = "summarise"
    /\ m_pc' = "raised"
    /\ UNCHANGED <<m_papers, m_idx, m_kept, m_survey, markdown_file, pdf_file,
                   m_pandoc, m_pdflatex, m_collected, m_set, m_checked, m_verdicts,
                   m_written>>
    /\ UNCHANGED notMainVars

\* 128-134: the loop is over
SummariseDone ==
    /\ m_pc = "summarise"
    /\ m_idx > Len(m_papers)
    /\ m_idx' = 1
    /\ m_pc' = "refilter"
    /\ UNCHANGED <<m_papers, m_kept, m_survey, markdown_file, pdf_file, m_pandoc,
                   m_pdflatex, m_error, m_collected, m_set, m_checked, m_verdicts,
                   m_written>>
    /\ UNCHANGED notMainVars

\* 141-145: is_relevant_paper on the next paper of the comprehension
RelevanceNext ==
    /\ m_pc = "refilter"
    /\ m_idx <= Len(m_papers)
    /\ \E verdict \in BOOLEAN :
          /\ m_verdicts' = Append(m_verdicts, verdict)
          /\ m_kept' = IF verdict THEN Append(m_kept, m_papers[m_idx]) ELSE m_kept
    /\ m_checked' = Append(m_checked, m_papers[m_idx])
    /\ m_idx' = m_idx + 1
    /\ UNCHANGED <<m_pc, m_papers, m_survey, markdown_file, pdf_file, m_pandoc,
                   m_pdflatex, m_error, m_collected, m_set, m_written>>
    /\ UNCHANGED notMainVars

\* 144: is_relevant_paper raises
RelevanceFails ==
    /\ m_pc = "refilter"
    /\ m_idx <= Len(m_papers)
    /\ m_error' = "relevance"
    /\ m_pc' = "raised"
    /\ UNCHANGED <<m_papers, m_idx, m_kept, m_survey, markdown_file, pdf_file,
                   m_pandoc, m_pdflatex, m_collected, m_set, m_checked, m_verdicts,
                   m_written>>
    /\ UNCHANGED notMainVars

\* 141-149: the comprehension is over and `papers` is bound to its result
RefilterDone ==
    /\ m_pc = "refilter"
    /\ m_idx > Len(m_papers)
    /\ m_papers' = m_kept
    /\ m_pc' = "write"
    /\ UNCHANGED <<m_idx, m_kept, m_survey, markdown_file, pdf_file, m_pandoc,
                   m_pdflatex, m_error, m_collected, m_set, m_checked, m_verdicts,
                   m_written>>
    /\ UNCHANGED notMainVars

\* 151-154: write_literature_survey returns the survey
WriterReturns ==
    /\ m_pc = "write"
    /\ m_written' = <<m_papers>>
    /\ m_survey' \in {<<"s", "1">>, <<"s", "2">>}
    /\ m_pc' = "save"
    /\ UNCHANGED <<m_papers, m_idx, m_kept, markdown_file, pdf_file, m_pandoc,
                   m_pdflatex, m_error, m_collected, m_set, m_checked, m_verdicts>>
    /\ UNCHANGED notMainVars

\* 151-154: write_literature_survey raises
WriterRaises ==
    /\ m_pc = "write"
    /\ m_written' = <<m_papers>>
    /\ m_error' = "write"
    /\ m_pc' = "raised"
    /\ UNCHANGED <<m_papers, m_idx, m_kept, m_survey, markdown_file, pdf_file,
                   m_pandoc, m_pdflatex, m_collected, m_set, m_checked, m_verdicts>>
    /\ UNCHANGED notMainVars

\* 155: the survey is written to the Markdown file
SaveMarkdown ==
    /\ m_pc = "save"
    /\ markdown_file' = File(m_survey)
    /\ m_pc' = "probe pandoc"
    /\ UNCHANGED <<m_papers, m_idx, m_kept, m_survey, pdf_file, m_pandoc, m_pdflatex,
                   m_error, m_collected, m_set, m_checked, m_verdicts, m_written>>
    /\ UNCHANGED notMainVars

\* 160-166: `pandoc --version` runs
ProbePandoc ==
    /\ m_pc = "probe pandoc"
    /\ VersionProbe(m_pandoc) # "FileNotFoundError"
    /\ m_pc' = "probe pdflatex"
    /\ UNCHANGED <<m_papers, m_idx, m_kept, m_survey, markdown_file, pdf_file,
                   m_pandoc, m_pdflatex, m_error, m_collected, m_set, m_checked,
                   m_verdicts, m_written>>
    /\ UNCHANGED notMainVars

\* 160-166: pandoc is not on the PATH and subprocess.run raises
ProbePandocRaises ==
    /\ m_pc = "probe pandoc"
    /\ VersionProbe(m_pandoc) = "FileNotFoundError"
    /\ m_error' = "FileNotFoundError"
    /\ m_pc' = "raised"
    /\ UNCHANGED <<m_papers, m_idx, m_kept, m_survey, markdown_file, pdf_file,
                   m_pandoc, m_pdflatex, m_collected, m_set, m_checked, m_verdicts,
                   m_written>>
    /\ UNCHANGED notMainVars

\* 167-172: `pdflatex --version` runs
ProbePdflatex ==
    /\ m_pc = "probe pdflatex"
    /\ VersionProbe(m_pdflatex) # "FileNotFoundError"
    /\ m_pc' = "render"
    /\ UNCHANGED <<m_papers, m_idx, m_kept, m_survey, markdown_file, pdf_file,
                   m_pandoc, m_pdflatex, m_error, m_collected, m_set, m_checked,
                   m_verdicts, m_written>>
    /\ UNCHANGED notMainVars

\* 167-172: pdflatex is not on the PATH and subprocess.run raises
ProbePdflatexRaises ==
    /\ m_pc = "probe pdflatex"
    /\ VersionProbe(m_pdflatex) = "FileNotFoundError"
    /\ m_error' = "FileNotFoundError"
    /\ m_pc' = "raised"
    /\ UNCHANGED <<m_papers, m_idx, m_kept, m_survey, markdown_file, pdf_file,
                   m_pandoc, m_pdflatex, m_collected, m_set, m_checked, m_verdicts,
                   m_written>>
    /\ UNCHANGED notMainVars

\* 173-202: a probe exited with an error: a warning, and no PDF
WarnNotInstalled ==
    /\ m_pc = "render"
    /\ VersionProbe(m_pandoc) = "not installed" \/ VersionProbe(m_pdflatex) = "not installed"
    /\ m_pc' = "done"
    /\ UNCHANGED <<m_papers, m_idx, m_kept, m_survey, markdown_file, pdf_file,
                   m_pandoc, m_pdflatex, m_error, m_collected, m_set, m_checked,
                   m_verdicts, m_written>>
    /\ UNCHANGED notMainVars

\* 203-216: pandoc converts the survey
ConvertToPdf ==
    /\ m_pc = "render"
    /\ VersionProbe(m_pandoc) = "installed" /\ VersionProbe(m_pdflatex) = "installed"
    /\ pdf_file' = File(m_survey)
    /\ m_pc' = "done"
    /\ UNCHANGED <<m_papers, m_idx, m_kept, m_survey, markdown_file, m_pandoc,
                   m_pdflatex, m_error, m_collected, m_set, m_checked, m_verdicts,
                   m_written>>
    /\ UNCHANGED notMainVars

\* 210-215: pandoc exits with an error and check=True raises
\* CalledProcessError
ConvertFails ==
    /\ m_pc = "render"
    /\ VersionProbe(m_pandoc) = "installed" /\ VersionProbe(m_pdflatex) = "installed"
    /\ m_error' = "CalledProcessError"
    /\ m_pc' = "raised"
    /\ UNCHANGED <<m_papers, m_idx, m_kept, m_survey, markdown_file, pdf_file,
                   m_pandoc, m_pdflatex, m_collected, m_set, m_checked, m_verdicts,
                   m_written>>
    /\ UNCHANGED notMainVars

MainNext ==
    \/ SearchReturns \/ SearchRaises
    \/ SummariseNext \/ SummariseFails \/ SummariseDone
    \/ RelevanceNext \/ RelevanceFails \/ RefilterDone
    \/ WriterReturns \/ WriterRaises \/ SaveMarkdown
    \/ ProbePandoc \/ ProbePandocRaises \/ ProbePdflatex \/ ProbePdflatexRaises
    \/ WarnNotInstalled \/ ConvertToPdf \/ ConvertFails

InitMain == MainInit /\ CoreIdle /\ FindIdle /\ SumIdle /\ FinalIdle /\ EqIdle

SpecMain == InitMain /\ [][MainNext]_vars

(***************************************************************************)
(* Claims about cli.main                                                   *)
(***************************************************************************)
AllSummarised == \A i \in DOMAIN m_set : m_set[i] = 1
SecondPassStarted == m_checked # <<>> \/ m_pc \in {"refilter", "write", "save"}
WriterCalled == m_written # <<>>
Rendering == m_pc \in {"probe pandoc", "probe pdflatex", "render", "done"}

\* C17: the stages run one after the other on the complete output of the
\* stage before: the summary of every collected paper is set once, in list
\* order, and all of them before the first call of the second relevance pass;
\* that pass sees every collected paper with the Summarizer's summary; and the
\* writer is called after the pass has finished, with the papers it kept.
StageOrdering ==
    /\ Len(m_set) = Len(m_collected)
    /\ \A i \in DOMAIN m_set : m_set[i] <= 1
    /\ m_pc = "summarise" => \A i \in DOMAIN m_set : (m_set[i] = 1) <=> (i < m_idx)
    /\ (SecondPassStarted \/ WriterCalled \/ markdown_file.exists) => AllSummarised
    /\ Len(m_checked) <= Len(m_collected) /\ Len(m_verdicts) = Len(m_checked)
    /\ \A i \in DOMAIN m_checked :
          /\ m_checked[i].summary \in SummaryPool
          /\ m_checked[i] = [m_collected[i] EXCEPT !.summary = m_checked[i].summary]
    /\ WriterCalled =>
          /\ Len(m_checked) = Len(m_collected)
          /\ m_written[1] = SelectByIndex(m_checked, {i \in DOMAIN m_verdicts : m_verdicts[i]})
    /\ (markdown_file.exists \/ Rendering) => WriterCalled

\* a run to the end in which the search found papers, the second pass dropped
\* one of them and the writer got the rest
StageOrderingWitness ==
    /\ m_pc = "done"
    /\ Len(m_collected) = MaxMainPapers
    /\ WriterCalled /\ m_written[1] # <<>> /\ Len(m_written[1]) < Len(m_collected)
    /\ markdown_file.exists

\* C18: the Markdown file is written before the renderer is tried, it stays
\* as written, and once it is written nothing the renderer does (a tool that
\* is missing, pandoc exiting with an error) makes main raise.
RendererNonFatal ==
    /\ (Rendering \/ pdf_file.exists) => markdown_file = File(m_survey)
    /\ markdown_file.exists => markdown_file = File(m_survey)
    /\ markdown_file.exists => m_pc # "raised"

\* the part about the Markdown file alone
MarkdownFirst ==
    /\ (Rendering \/ pdf_file.exists) => markdown_file = File(m_survey)
    /\ markdown_file.exists => markdown_file = File(m_survey)

(***************************************************************************)
(* final_answer: the validation and the rewriting of the report            *)
(***************************************************************************)
\* the word and reference thresholds of lines 128 and 171 (1,500 and 10),
\* scaled to the size of the reports of the model
MinWords == 2
MinReferences == 2

\* len(re.findall(r"\b\w+\b", s)): the number of maximal runs of word
\* characters
RECURSIVE CountWords(_)
CountWords(s) ==
    IF s = <<>> THEN 0
    ELSE IF IsWordChar(Head(s))
         THEN (IF Len(s) = 1 \/ ~IsWordChar(s[2]) THEN 1 ELSE 0) + CountWords(Tail(s))
    ELSE CountWords(Tail(s))

\* re.sub(r"\n+", "\n\n", s)
RECURSIVE DoubleNewlines(_)
DoubleNewlines(s) ==
    IF s = <<>> THEN <<>>
    ELSE IF NewlineRun(s) >= 1
         THEN <<"\n", "\n">> \o DoubleNewlines(Suffix(s, NewlineRun(s)))
    ELSE <<Head(s)>> \o DoubleNewlines(Tail(s))

\* markdown.split("## References")[0] and [-1]
BeforeFirstHeading(markdown) ==
    IF Find(RefHeading, markdown) = -1 THEN markdown
    ELSE Prefix(markdown, Find(RefHeading, markdown))
AfterLastHeading(markdown) ==
    IF RFind(RefHeading, markdown) = -1 THEN markdown
    ELSE Suffix(markdown, RFind(RefHeading, markdown) + Len(RefHeading))

\* a count over the whole report, references included
NumWordsOfReport(markdown) == CountWords(markdown)

\* 126-127
NumWords(markdown) == CountWords(BeforeFirstHeading(markdown))

\* 164-170: the lines under the last heading that are not blank
NumReferences(markdown) ==
    Len(SelectSeq(SplitLines(AfterLastHeading(markdown)), LAMBDA line : Strip(line) # <<>>))

\* 144-145
ReferencesSection(markdown) == Strip(AfterLastHeading(markdown))
HasDoubleNewline(markdown) == Occurs(BlankLine, ReferencesSection(markdown))

\* a rewrite that also runs on a section that has a blank line somewhere
RewrittenAlways(markdown) ==
    BeforeFirstHeading(markdown) \o BlankLine \o RefHeading \o BlankLine
    \o DoubleNewlines(Strip(ReferencesSection(markdown)))

\* 143-161: the report after the newline check
Rewritten(markdown) ==
    IF ~HasDoubleNewline(markdown)
    THEN BeforeFirstHeading(markdown) \o BlankLine \o RefHeading \o BlankLine
         \o DoubleNewlines(Strip(ReferencesSection(markdown)))
    ELSE markdown

\* reports: a body of words, no heading, one or two, and reference lines with
\* one, two or three newlines between them
Repeat(x, n) == [i \in 1..n |-> x]
RECURSIVE JoinWithGaps(_, _)
JoinWithGaps(lines, gaps) ==
    IF lines = <<>> THEN <<>>
    ELSE IF Len(lines) = 1 THEN lines[1]
    ELSE lines[1] \o Repeat("\n", gaps[1]) \o JoinWithGaps(Tail(lines), Tail(gaps))

ReportBodies == {Join(<<" ">>, Repeat(<<"w">>, k)) : k \in 0..MinWords}
ReportReferences ==
    UNION {{JoinWithGaps(Repeat(<<"r">>, n), gaps) : gaps \in [1..(n - 1) -> 1..3]} :
            n \in 1..(MinReferences + 1)}
    \cup {<<>>}
ReportTexts ==
    UNION {{body \o BlankLine \o refs,
            body \o BlankLine \o RefHeading \o BlankLine \o refs,
            body \o BlankLine \o RefHeading \o <<"\n", "o", "\n">> \o RefHeading
                \o BlankLine \o refs} :
           body \in ReportBodies, refs \in ReportReferences}

FinalInit ==
    /\ a_pc = "start"
    /\ report_file \in {NoFile} \cup {File(text) : text \in ReportTexts}
    /\ a_given = report_file
    /\ a_pdf = FALSE
    /\ a_pandoc \in ToolStates /\ a_weasyprint \in ToolStates
    /\ a_error = "none"

\* 119-122: there is no such file
RaiseFileNotFound ==
    /\ a_pc = "start"
    /\ ~report_file.exists
    /\ a_error' = "FileNotFoundError"
    /\ a_pc' = "raised"
    /\ UNCHANGED <<report_file, a_given, a_pdf, a_pandoc, a_weasyprint>>
    /\ UNCHANGED notFinalVars

\* 124-134: too few words before the heading
RejectTooShort ==
    /\ a_pc = "start"
    /\ report_file.exists
    /\ NumWords(report_file.text) < MinWords
    /\ a_error' = "too short"
    /\ a_pc' = "raised"
    /\ UNCHANGED <<report_file, a_given, a_pdf, a_pandoc, a_weasyprint>>
    /\ UNCHANGED notFinalVars

\* 136-141: enough words, and no heading
RejectNoSection ==
    /\ a_pc = "start"
    /\ report_file.exists
    /\ NumWords(report_file.text) >= MinWords
    /\ ~Occurs(RefHeading, report_file.text)
    /\ a_error' = "no References section"
    /\ a_pc' = "raised"
    /\ UNCHANGED <<report_file, a_given, a_pdf, a_pandoc, a_weasyprint>>
    /\ UNCHANGED notFinalVars

\* 143-161: the newline check; a rewritten report is written to the file
NormaliseReferences ==
    /\ a_pc = "start"
    /\ report_file.exists
    /\ NumWords(report_file.text) >= MinWords
    /\ Occurs(RefHeading, report_file.text)
    /\ report_file' = File(Rewritten(report_file.text))
    /\ a_pc' = "normalised"
    /\ UNCHANGED <<a_given, a_pdf, a_pandoc, a_weasyprint, a_error>>
    /\ UNCHANGED notFinalVars

\* 163-176: too few lines under the heading
RejectTooFew ==
    /\ a_pc = "normalised"
    /\ NumReferences(report_file.text) < MinReferences
    /\ a_error' = "too few references"
    /\ a_pc' = "raised"
    /\ UNCHANGED <<report_file, a_given, a_pdf, a_pandoc, a_weasyprint>>
    /\ UNCHANGED notFinalVars

\* 163-184: enough references; both version probes run
ProbeTools ==
    /\ a_pc = "normalised"
    /\ NumReferences(report_file.text) >= MinReferences
    /\ VersionProbe(a_pandoc) # "FileNotFoundError"
    /\ VersionProbe(a_weasyprint) # "FileNotFoundError"
    /\ a_pc' = "probed"
    /\ UNCHANGED <<report_file, a_given, a_pdf, a_pandoc, a_weasyprint, a_error>>
    /\ UNCHANGED notFinalVars

\* 163-184: enough references; a tool is not on the PATH and its probe raises
ProbeToolsRaises ==
    /\ a_pc = "normalised"
    /\ NumReferences(report_file.text) >= MinReferences
    /\ VersionProbe(a_pandoc) = "FileNotFoundError"
          \/ VersionProbe(a_weasyprint) = "FileNotFoundError"
    /\ a_error' = "FileNotFoundError (tool)"
    /\ a_pc' = "raised"
    /\ UNCHANGED <<report_file, a_given, a_pdf, a_pandoc, a_weasyprint>>
    /\ UNCHANGED notFinalVars

\* 185-196, 205-209: pandoc runs (its exit status is not looked at); the success
\* message
RenderPdf ==
    /\ a_pc = "probed"
    /\ VersionProbe(a_pandoc) = "installed" /\ VersionProbe(a_weasyprint) = "installed"
    /\ a_pdf' \in BOOLEAN
    /\ a_pc' = "returned"
    /\ UNCHANGED <<report_file, a_given, a_pandoc, a_weasyprint, a_error>>
    /\ UNCHANGED notFinalVars

\* 197-209: a tool is not installed: a warning; the success message
SkipPdf ==
    /\ a_pc = "probed"
    /\ ~(VersionProbe(a_pandoc) = "installed" /\ VersionProbe(a_weasyprint) = "installed")
    /\ a_pc' = "returned"
    /\ UNCHANGED <<report_file, a_given, a_pdf, a_pandoc, a_weasyprint, a_error>>
    /\ UNCHANGED notFinalVars

FinalNext ==
    \/ RaiseFileNotFound \/ RejectTooShort \/ RejectNoSection \/ NormaliseReferences
    \/ RejectTooFew \/ ProbeTools \/ ProbeToolsRaises \/ RenderPdf \/ SkipPdf

InitFinal == FinalInit /\ CoreIdle /\ FindIdle /\ SumIdle /\ MainIdle /\ EqIdle

SpecFinal == InitFinal /\ [][FinalNext]_vars

(***************************************************************************)
(* Claims about final_answer                                               *)
(***************************************************************************)
HasSection(markdown) == Occurs(RefHeading, markdown)

\* the words that stand before the first heading
WordsBeforeHeading(markdown) == CountWords(BeforeFirstHeading(markdown))

\* one of the four defects of a report, judged on the file as it was given
Defective ==
    \/ ~a_given.exists
    \/ WordsBeforeHeading(a_given.text) < MinWords
    \/ ~HasSection(a_given.text)
    \/ NumReferences(a_given.text) < MinReferences

\* a defective report ends in one of the four errors, and never in the tool
\* probes or the success message
Rejects ==
    /\ Defective => a_pc \in {"start", "normalised", "raised"}
    /\ (Defective /\ a_pc = "raised") =>
          a_error \in {"FileNotFoundError", "too short", "no References section",
                       "too few references"}
    /\ (a_pc = "raised" /\ ~a_given.exists) => a_error = "FileNotFoundError"
    /\ a_pc \in {"probed", "returned"} => ~Defective

\* C19: final_answer raises when the file does not exist, when fewer than the
\* required words stand before the heading, when the heading is missing or
\* when fewer than the required non-blank lines follow it, and returns its
\* message only when none of these holds; a report without the heading is
\* rejected with the error for the missing section.
FinalAnswerValidation ==
    /\ Rejects
    /\ (a_pc = "raised" /\ a_given.exists /\ ~HasSection(a_given.text)) =>
          a_error = "no References section"

\* C19 as amended: a report without the heading is rejected with the error for
\* the missing section when it has the required number of words, and as too
\* short otherwise, since the words are counted first.
FinalAnswerValidationAmended ==
    /\ Rejects
    /\ (a_pc = "raised" /\ a_given.exists /\ ~HasSection(a_given.text)) =>
          a_error = IF WordsBeforeHeading(a_given.text) >= MinWords
                    THEN "no References section" ELSE "too short"

\* a report with enough words and enough lines for references, and without
\* the heading, was rejected for the missing section
FinalAnswerValidationWitness ==
    /\ a_pc = "raised"
    /\ a_error = "no References section"
    /\ WordsBeforeHeading(a_given.text) >= MinWords
    /\ NumReferences(a_given.text) >= MinReferences

\* the entries of a section stand one blank line apart: split at blank lines,
\* no part is empty or holds a newline
OneBlankLineApart(section) ==
    section # <<>> =>
        \A k \in DOMAIN Split(section, BlankLine) :
            /\ Split(section, BlankLine)[k] # <<>>
            /\ ~Occurs(NewLine, Split(section, BlankLine)[k])

\* C20: in the file of every report that final_answer accepts, the entries
\* of the References section stand exactly one blank line apart, whatever
\* newlines the report had between them.
ReferenceSeparation ==
    a_pc = "returned" => OneBlankLineApart(ReferencesSection(report_file.text))

\* the same for the reports whose section has no blank line at all
ReferenceSeparationOfSingleNewlines ==
    (a_pc = "returned" /\ ~HasDoubleNewline(a_given.text)) =>
        OneBlankLineApart(ReferencesSection(report_file.text))

(***************************************************************************)
(* data_models.py: Paper.__eq__ and Paper.__hash__                         *)
(***************************************************************************)
\* data_models.py 114-121: the string Paper.__hash__ hands to hash()
PaperHashKey(p) ==
    p.title
    \o Join(<<",">>, [i \in 1..Len(p.authors) |->
                         p.authors[i].first_name \o p.authors[i].last_name])
    \o IntStr(p.year) \o p.venue \o p.url \o p.summary

\* hash() of a string: a function of its characters, the same for equal strings
\* within one process; a polynomial over the code points stands for it
RECURSIVE StrHash(_)
StrHash(s) ==
    IF s = <<>> THEN 0
    ELSE (31 * StrHash(SubSeq(s, 1, Len(s) - 1)) + Ord(s[Len(s)])) % 65521

\* Paper.__hash__
PaperHash(p) == StrHash(PaperHashKey(p))

\* the lookup of a set: an element with the same hash that compares equal
InPySet(p, kept) ==
    \E i \in 1..Len(kept) : PaperHash(kept[i]) = PaperHash(p) /\ PaperEq(kept[i], p)

\* set(list), as the list of the elements kept
RECURSIVE PySet(_)
PySet(list) ==
    IF list = <<>> THEN <<>>
    ELSE LET kept == PySet(SubSeq(list, 1, Len(list) - 1))
             last == list[Len(list)]
         IN  IF InPySet(last, kept) THEN kept ELSE Append(kept, last)

\* papers that differ in any of the six fields, the order of the authors included
EqPapers ==
    { Paper(t, as, y, v, u, sm) :
        t \in {<<>>, <<"a">>},
        as \in { <<Author(<<"B","o">>, <<"W","u">>)>>,
                 <<Author(<<"B","o">>, <<"W","u">>), Author(<<>>, <<"N","g">>)>>,
                 <<Author(<<>>, <<"N","g">>), Author(<<"B","o">>, <<"W","u">>)>> },
        y \in {-1, 2020},
        v \in {<<>>, <<"a">>}, u \in {<<>>, <<"a">>}, sm \in {<<>>, <<"a">>} }

EqInit ==
    /\ e_left \in EqPapers /\ e_right \in EqPapers
    /\ e_op = "none" /\ e_result = NoResult

\* left == right
CallEq ==
    /\ e_op' = "eq"
    /\ e_result' = [NoResult EXCEPT !.eq = PaperEq(e_left, e_right)]
    /\ UNCHANGED <<e_left, e_right>>
    /\ UNCHANGED notEqVars

\* hash(left), hash(right)
CallHash ==
    /\ e_op' = "hash"
    /\ e_result' = [NoResult EXCEPT !.hashes = <<PaperHash(e_left), PaperHash(e_right)>>]
    /\ UNCHANGED <<e_left, e_right>>
    /\ UNCHANGED notEqVars

\* left in [right]
CallIn ==
    /\ e_op' = "in"
    /\ e_result' = [NoResult EXCEPT !.member = PaperIn(e_left, <<e_right>>)]
    /\ UNCHANGED <<e_left, e_right>>
    /\ UNCHANGED notEqVars

\* len(set([left, right]))
CallSet ==
    /\ e_op' = "set"
    /\ e_result' = [NoResult EXCEPT !.size = Len(PySet(<<e_left, e_right>>))]
    /\ UNCHANGED <<e_left, e_right>>
    /\ UNCHANGED notEqVars

EqNext == CallEq \/ CallHash \/ CallIn \/ CallSet

InitEq == EqInit /\ CoreIdle /\ FindIdle /\ SumIdle /\ MainIdle /\ FinalIdle

SpecEq == InitEq /\ [][EqNext]_vars

\* the six fields of the two papers are equal, the authors in their order
SameFields ==
    /\ e_left.title = e_right.title
    /\ Len(e_left.authors) = Len(e_right.authors)
    /\ \A i \in 1..Len(e_left.authors) :
           /\ e_left.authors[i].first_name = e_right.authors[i].first_name
           /\ e_left.authors[i].last_name = e_right.authors[i].last_name
    /\ e_left.year = e_right.year
    /\ e_left.venue = e_right.venue
    /\ e_left.url = e_right.url
    /\ e_left.summary = e_right.summary

\* C27: two Papers compare equal if and only if title, ordered authors, year,
\* venue, url and summary are equal; equal Papers have the same hash, one is a
\* member of a list that holds the other, and a set built from both holds one.
StructuralEquality ==
    /\ e_op = "eq" => (e_result.eq <=> SameFields)
    /\ (e_op = "hash" /\ SameFields) => e_result.hashes[1] = e_result.hashes[2]
    /\ e_op = "in" => (e_result.member <=> SameFields)
    /\ e_op = "set" => e_result.size = (IF SameFields THEN 1 ELSE 2)

\* two papers that differ in the summary alone were put into a set
StructuralEqualityWitness ==
    /\ e_op = "set"
    /\ e_left.summary # e_right.summary
    /\ [e_left EXCEPT !.summary = <<>>] = [e_right EXCEPT !.summary = <<>>]
    /\ Len(e_left.authors) = 2
    /\ e_result.size = 2

\* papers that are not equal can have the same hash: the fields are joined
\* without a separator
HashSeparatesPapers ==
    (e_op = "hash" /\ ~SameFields) => e_result.hashes[1] # e_result.hashes[2]
====
